---- MODULE Spec2Model ----
(***************************************************************************)
(* The annotation editor of src/src/RadarLabeler.jsx as a state machine:   *)
(* the project aggregate, the transient interaction state, the debounced   *)
(* save timer, the backup store and the save-target handle.                *)
(*                                                                         *)
(* Number representation.  JavaScript doubles are modelled in fixed point: *)
(* zoom in thousandths (1.0 is ZOOM_ONE), rotation in hundredths of a      *)
(* degree, pan and image coordinates in whole pixels.  Fields that the     *)
(* code can set to NaN (rotationDeg, panX, panY) carry a tag, so that NaN  *)
(* and the null that JSON.stringify writes for it are values of the model. *)
(***************************************************************************)
EXTENDS Integers, Sequences, FiniteSets, TLC

\* ------------------------------------------------------------- constants
KEY_PAN_STEP == 40
ZOOM_ONE == 1000
ZOOM_MIN == 200
ZOOM_MAX == 32000
ROTATION_MIN == -1000
ROTATION_MAX == 1000
ROTATION_STEP == 10
SAVE_DEBOUNCE_MS == 400

TOOL_SELECT == "select"
TOOL_PAN == "pan"
TOOL_BOAT_POINT == "boat_point"
TOOL_BOAT_BOX == "boat_box"
TOOL_BUOY_POINT == "buoy_point"
TOOL_BUOY_BOX == "buoy_box"
LABEL_BOAT == "boat"
LABEL_BUOY == "buoy"
ANNOTATION_POINT == "point"
ANNOTATION_BBOX == "bbox"

\* ---------------------------------------------------------------- bounds
\* Save requests per behaviour: user operations that go through
\* updateProject, and presses of the save combo.
MaxEdits == 2
\* Operations that replace the project (project-file load, image import).
MaxLoads == 2
\* Milliseconds by which one Tick advances the armed timers.
TickMs == 200

\* ------------------------------------------------------ JavaScript numbers
Num(v) == [k |-> "num", v |-> v]
NaN == [k |-> "nan", v |-> 0]
JsNull == [k |-> "null", v |-> 0]

\* ToNumber: null coerces to 0 in arithmetic.
ToNumber(a) == IF a.k = "null" THEN Num(0) ELSE a

JsAdd(a, b) ==
    LET x == ToNumber(a)
        y == ToNumber(b)
    IN  IF x.k = "nan" \/ y.k = "nan" THEN NaN ELSE Num(x.v + y.v)

JsSub(a, b) ==
    LET x == ToNumber(a)
        y == ToNumber(b)
    IN  IF x.k = "nan" \/ y.k = "nan" THEN NaN ELSE Num(x.v - y.v)

\* Math.max / Math.min return NaN when an argument is NaN.
MathMax(a, b) ==
    LET x == ToNumber(a)
        y == ToNumber(b)
    IN  IF x.k = "nan" \/ y.k = "nan" THEN NaN
        ELSE IF x.v >= y.v THEN x ELSE y

MathMin(a, b) ==
    LET x == ToNumber(a)
        y == ToNumber(b)
    IN  IF x.k = "nan" \/ y.k = "nan" THEN NaN
        ELSE IF x.v <= y.v THEN x ELSE y

IntMax(a, b) == IF a >= b THEN a ELSE b
IntMin(a, b) == IF a <= b THEN a ELSE b

\* parseFloat of the text of an <input>: the empty string (a cleared or
\* half-typed number field) gives NaN, a decimal text gives its value.
ParseFloat(text) == IF text.empty THEN NaN ELSE Num(text.value)

\* The texts a number field can hold, in hundredths: empty, -20, 3.5, 25.
NumberFieldTexts ==
    { [empty |-> TRUE, value |-> 0],
      [empty |-> FALSE, value |-> -2000],
      [empty |-> FALSE, value |-> 350],
      [empty |-> FALSE, value |-> 2500] }

\* JSON.stringify writes NaN as null; JSON.parse reads null back.
JsonNumber(a) == IF a.k = "nan" THEN JsNull ELSE a

\* ------------------------------------------------------------ data model
createDefaultProject ==
    [ version |-> 1,
      viewport |-> [zoom |-> ZOOM_ONE, panX |-> Num(0), panY |-> Num(0)],
      currentIndex |-> 0,
      frames |-> <<>>,
      globalBuoys |-> <<>> ]

\* createAnnotation; the identifier is supplied by the caller (generateId).
\* x, y, w and h are JavaScript numbers; a point carries no w and h, which
\* the record holds as 0.
createAnnotation(id, type, label, x, y, w, h) ==
    [ id |-> id, type |-> type, label |-> label, x |-> x, y |-> y,
      w |-> IF type = ANNOTATION_BBOX THEN w ELSE Num(0),
      h |-> IF type = ANNOTATION_BBOX THEN h ELSE Num(0) ]

\* A frame as every import builds it; name is the file name's rank in the
\* natural (numeric-aware, case-insensitive) order of file names.
NewFrame(img) ==
    [ name |-> img.name, width |-> img.width, height |-> img.height,
      rotationDeg |-> Num(0), annotations |-> <<>> ]

\* frames[currentIndex]: undefined when the index designates no element.
HasCurrentFrame(p) == p.currentIndex >= 0 /\ p.currentIndex < Len(p.frames)
CurrentFrame(p) == p.frames[p.currentIndex + 1]

\* JSON.stringify followed by JSON.parse of a list of annotations.
JsonAnnotations(anns) ==
    [ i \in DOMAIN anns |->
        [ anns[i] EXCEPT !.x = JsonNumber(@), !.y = JsonNumber(@),
                         !.w = JsonNumber(@), !.h = JsonNumber(@) ] ]

\* JSON.stringify followed by JSON.parse of a project.
JsonProject(p) ==
    [ p EXCEPT
        !.viewport = [ zoom |-> p.viewport.zoom,
                       panX |-> JsonNumber(p.viewport.panX),
                       panY |-> JsonNumber(p.viewport.panY) ],
        !.frames = [ i \in DOMAIN p.frames |->
                       [ p.frames[i] EXCEPT
                           !.rotationDeg = JsonNumber(@),
                           !.annotations = JsonAnnotations(@) ] ],
        !.globalBuoys = JsonAnnotations(@) ]

\* A JSON text, by what JSON.parse makes of it: a syntax error, the value
\* null, or an object whose version and frames keys may be missing, null
\* or of another type.  body holds the remaining keys.
JSONStringify(p) ==
    [ parse |-> "object", versionKind |-> "number", framesKind |-> "array",
      body |-> JsonProject(p) ]

Truthy_version(doc) == doc.versionKind = "number" /\ doc.body.version # 0
Truthy_frames(doc) == doc.framesKind \in {"string", "array"}
ArrayIsArray_frames(doc) == doc.framesKind = "array"

\* ------------------------------------------------------- sample contents
Img1 == [name |-> 1, width |-> 100, height |-> 80]
Img2 == [name |-> 2, width |-> 60, height |-> 40]

Boat1 ==
    createAnnotation(1, ANNOTATION_BBOX, LABEL_BOAT, Num(10), Num(10), Num(20), Num(20))
Buoy1 ==
    createAnnotation(1, ANNOTATION_POINT, LABEL_BUOY, Num(30), Num(30), Num(0), Num(0))
\* Two overlapping boxes: one of the default size and a smaller one drawn
\* later inside it.
Boat2 ==
    createAnnotation(2, ANNOTATION_BBOX, LABEL_BOAT, Num(20), Num(20), Num(80), Num(80))
Boat3 ==
    createAnnotation(3, ANNOTATION_BBOX, LABEL_BOAT, Num(50), Num(50), Num(40), Num(40))
\* A boat marked as a point, away from the boxes.
Boat4 ==
    createAnnotation(4, ANNOTATION_POINT, LABEL_BOAT, Num(5), Num(70), Num(0), Num(0))

ProjTwoFrames ==
    [ createDefaultProject EXCEPT
        !.frames = << [NewFrame(Img2) EXCEPT !.annotations = <<Boat1>>],
                      NewFrame(Img1) >>,
        !.currentIndex = 1,
        !.globalBuoys = <<Buoy1>> ]

\* A project of one frame with the two overlapping boxes and the point, and
\* a global buoy.
ProjBoxes ==
    [ createDefaultProject EXCEPT
        !.frames = << [NewFrame(Img1) EXCEPT !.annotations = <<Boat2, Boat3, Boat4>>] >>,
        !.globalBuoys = <<Buoy1>> ]

ProjBadIndex ==
    [ createDefaultProject EXCEPT !.frames = <<NewFrame(Img1)>>, !.currentIndex = 2 ]

ProjBadZoom ==
    [ createDefaultProject EXCEPT
        !.frames = <<NewFrame(Img1)>>,
        !.viewport = [zoom |-> 64 * ZOOM_ONE, panX |-> Num(0), panY |-> Num(0)] ]

ProjBadRotation ==
    [ createDefaultProject EXCEPT
        !.frames = << [NewFrame(Img1) EXCEPT !.rotationDeg = Num(45 * 100)] >> ]

ObjectDoc(vk, fk, body) ==
    [parse |-> "object", versionKind |-> vk, framesKind |-> fk, body |-> body]

\* Project files a user can pick.
ProjectFiles ==
    { JSONStringify(ProjTwoFrames),
      JSONStringify(ProjBadIndex),
      JSONStringify(ProjBadZoom),
      JSONStringify(ProjBadRotation),
      JSONStringify(createDefaultProject),
      ObjectDoc("missing", "array", ProjTwoFrames),
      ObjectDoc("null", "array", ProjTwoFrames),
      ObjectDoc("number", "array", [ProjTwoFrames EXCEPT !.version = 0]),
      ObjectDoc("number", "missing", [ProjTwoFrames EXCEPT !.frames = <<>>]),
      ObjectDoc("number", "null", [ProjTwoFrames EXCEPT !.frames = <<>>]),
      ObjectDoc("number", "string", [ProjTwoFrames EXCEPT !.frames = <<>>]),
      [JSONStringify(ProjTwoFrames) EXCEPT !.parse = "null"],
      [JSONStringify(ProjTwoFrames) EXCEPT !.parse = "error"] }

\* A project file of an earlier session that holds boxes.
BoxProjectFiles == { JSONStringify(ProjBoxes) }

\* What the backup key of the local store can hold when the page opens:
\* nothing, a text that does not parse, null, an object without frames, a
\* project with an empty frame list, and a project of an earlier session.
InitialBackups ==
    { <<>>,
      << [JSONStringify(ProjTwoFrames) EXCEPT !.parse = "error"] >>,
      << [JSONStringify(ProjTwoFrames) EXCEPT !.parse = "null"] >>,
      << ObjectDoc("number", "missing", [ProjTwoFrames EXCEPT !.frames = <<>>]) >>,
      << JSONStringify([createDefaultProject EXCEPT !.globalBuoys = <<Buoy1>>]) >>,
      << JSONStringify(ProjTwoFrames) >> }

\* What an image import delivers after decoding: the decoded images, in
\* the order the host lists the files (undecodable files already skipped).
DecodedImageLists == { <<>>, <<Img1>>, <<Img2, Img1>> }

\* ------------------------------------------------------------- variables
VARIABLES
    project,        \* useState: the project aggregate
    tool,           \* useState: the active tool
    selection,      \* useState: <<>> (null) or <<[type, id, index]>>
    isDragging,     \* useState
    dragStart,      \* useState: <<>> (null) or <<record>>
    dragCurrent,    \* useState: <<>> (null) or <<record>>
    status,         \* useState: the status line
    mounted,        \* whether the restore-on-mount effect has run
    fileHandle,     \* FileIOManager.fileHandle: TRUE once a handle is granted
    saveTimeoutRef, \* "null", "armed" (the id of the newest armed timer) or
                    \* "fired" (the id of a timer that has already run)
    timers,         \* the armed, not yet fired timers, oldest first
    inflight,       \* handle writes started and not yet completed
    localStorage,   \* the backup key: <<>> or <<document>>
    saveTarget,     \* the content of the save-target file: <<>> or <<document>>
    pendingImport,  \* image imports awaiting decode: <<>> or <<record>>
    io,             \* what the last timer callback asked of the stores
    hist            \* history of the behaviour, read by the properties only

vars ==
    << project, tool, selection, isDragging, dragStart, dragCurrent, status,
       mounted, fileHandle, saveTimeoutRef, timers, inflight, localStorage,
       saveTarget, pendingImport, io, hist >>

interactionVars == << tool, selection, isDragging, dragStart, dragCurrent >>
timerVars == << saveTimeoutRef, timers >>
storeVars == << inflight, localStorage, saveTarget, io >>

\* The record of a user operation, kept in hist.op for the properties.
Op(name, x, y) == << [name |-> name, x |-> x, y |-> y] >>

NoHist ==
    [ edits |-> 0, loads |-> 0,
      bursts |-> 0, saves |-> 0,
      lastNewProj |-> <<>>, op |-> <<>>,
      space |-> <<>>, probe |-> <<>>,
      lastLoad |-> <<>>, lastWrite |-> "none" ]

\* The state after construction, the local store holding one of backups.
InitWith(backups) ==
    /\ project = createDefaultProject
    /\ tool = TOOL_SELECT
    /\ selection = <<>>
    /\ isDragging = FALSE
    /\ dragStart = <<>>
    /\ dragCurrent = <<>>
    /\ status = "Ready"
    /\ mounted = FALSE
    /\ fileHandle = FALSE
    /\ saveTimeoutRef = "null"
    /\ timers = <<>>
    /\ inflight = <<>>
    /\ localStorage \in backups
    /\ saveTarget = <<>>
    /\ pendingImport = <<>>
    /\ io = <<>>
    /\ hist = NoHist

Init == InitWith(InitialBackups)

\* ------------------------------------------------------------- auto-save
RemoveAt(s, i) == SubSeq(s, 1, i - 1) \o SubSeq(s, i + 1, Len(s))

\* clearTimeout(id): disarms the timer if it is still armed.  The id kept in
\* saveTimeoutRef is that of the newest timer, the last of timers.
ClearTimeout(ts, ref) ==
    IF ref = "armed" THEN SubSeq(ts, 1, Len(ts) - 1) ELSE ts

\* Variants of triggerSave with a plausible slip: one that arms the new timer
\* without clearing the old one, and one that leaves an armed timer in place
\* instead of re-arming it (a throttle, not a debounce).
TimersAfterTrigger_NoClear(ts, ref, proj) ==
    Append(ts, [proj |-> proj, elapsed |-> 0])

TimersAfterTrigger_KeepArmed(ts, ref, proj) ==
    IF ref = "armed" THEN ts ELSE Append(ts, [proj |-> proj, elapsed |-> 0])

\* triggerSave: if (saveTimeoutRef.current) clearTimeout(...); then setTimeout.
TimersAfterTrigger(ts, ref, proj) ==
    Append(IF ref # "null" THEN ClearTimeout(ts, ref) ELSE ts,
           [proj |-> proj, elapsed |-> 0])

TriggerSave(proj) ==
    /\ timers' = TimersAfterTrigger(timers, saveTimeoutRef, proj)
    /\ saveTimeoutRef' = "armed"

\* updateProject with the updater already applied to the handler's project:
\* setProject(newProj); triggerSave(newProj).
UpdateProjectOp(newProj, op) ==
    /\ hist.edits < MaxEdits
    /\ project' = newProj
    /\ TriggerSave(newProj)
    /\ hist' = [ hist EXCEPT !.edits = @ + 1,
                             !.bursts = IF timers = <<>> THEN @ + 1 ELSE @,
                             !.lastNewProj = <<newProj>>,
                             !.op = op ]

UpdateProject(newProj) == UpdateProjectOp(newProj, <<>>)

\* What the timer callback asks of the stores, in order: always the backup
\* write, then liveWrite, which goes to the handle only if one is set.
\* Variant: liveWrite without its guard on the handle.
LiveWriteStarts_Unguarded(handle) == TRUE

LiveWriteStarts(handle) == handle

TimerCallback(proj, handle) ==
    << [op |-> "setItem", proj |-> proj] >>
    \o (IF LiveWriteStarts(handle)
        THEN << [op |-> "createWritable", proj |-> proj] >>
        ELSE <<>>)

\* saveToLocalStorage: a failing setItem (quota) is swallowed.
saveToLocalStorage(store, proj, ok) ==
    IF ok THEN << JSONStringify(proj) >> ELSE store

\* Variant: the callback reports success whatever liveWrite returned.
SaveStatus_AlwaysSaved(ok, handle) == "Saved"

\* The status the timer callback reports after liveWrite returned ok.
SaveStatus(ok, handle) == IF ~ok /\ handle THEN "SaveFailed" ELSE "Saved"

Tick ==
    /\ \E i \in DOMAIN timers : timers[i].elapsed < SAVE_DEBOUNCE_MS
    /\ timers' = [ i \in DOMAIN timers |->
                     [ timers[i] EXCEPT
                         !.elapsed = IntMin(SAVE_DEBOUNCE_MS, @ + TickMs) ] ]
    /\ UNCHANGED << project, interactionVars, status, mounted, fileHandle,
                    saveTimeoutRef, storeVars, pendingImport, hist >>

TimerFire(i, backupOk) ==
    /\ i \in DOMAIN timers
    /\ timers[i].elapsed >= SAVE_DEBOUNCE_MS
    /\ LET proj == timers[i].proj
           asked == TimerCallback(proj, fileHandle)
           live == \E j \in DOMAIN asked : asked[j].op = "createWritable"
           backs == { j \in DOMAIN asked : asked[j].op = "setItem" }
       IN  /\ timers' = RemoveAt(timers, i)
           /\ saveTimeoutRef' =
                IF i = Len(timers) /\ saveTimeoutRef = "armed"
                THEN "fired" ELSE saveTimeoutRef
           /\ io' = asked
           /\ localStorage' =
                IF backs # {}
                THEN saveToLocalStorage(localStorage, proj, backupOk)
                ELSE localStorage
           /\ inflight' = IF live THEN Append(inflight, proj) ELSE inflight
           /\ status' = IF live THEN status ELSE SaveStatus(FALSE, fileHandle)
           /\ hist' = [hist EXCEPT !.saves = @ + 1]
    /\ UNCHANGED << project, interactionVars, mounted, fileHandle, saveTarget,
                    pendingImport >>

\* liveWrite settles: createWritable/write/close succeeded, or one threw.
WriteComplete(i, ok) ==
    /\ i \in DOMAIN inflight
    /\ inflight' = RemoveAt(inflight, i)
    /\ saveTarget' = IF ok THEN << JSONStringify(inflight[i]) >> ELSE saveTarget
    /\ status' = SaveStatus(ok, fileHandle)
    /\ hist' = [hist EXCEPT !.lastWrite = IF ok THEN "ok" ELSE "failed"]
    /\ UNCHANGED << project, interactionVars, mounted, fileHandle, timerVars,
                    localStorage, io, pendingImport >>

\* handleChooseSaveFile: requestSaveFile sets the handle only on success.
ChooseSaveFile(ok) ==
    /\ mounted
    /\ HasCurrentFrame(project)
    /\ fileHandle' = (fileHandle \/ ok)
    /\ status' = IF ok THEN "SaveFileChosen" ELSE "SaveFileCancelled"
    /\ UNCHANGED << project, interactionVars, mounted, timerVars, storeVars,
                    pendingImport, hist >>

\* Variant: Ctrl/Cmd+S writing at once (the timer callback run in the key
\* handler) instead of going through triggerSave.
KeySave_Immediate ==
    /\ mounted
    /\ HasCurrentFrame(project)
    /\ hist.edits < MaxEdits
    /\ IF fileHandle
       THEN /\ io' = TimerCallback(project, fileHandle)
            /\ inflight' = Append(inflight, project)
            /\ localStorage' = saveToLocalStorage(localStorage, project, TRUE)
            /\ status' = "Saving"
       ELSE /\ status' = "BackupDownloaded"
            /\ UNCHANGED << io, inflight, localStorage >>
    /\ hist' = [ hist EXCEPT !.edits = @ + 1,
                             !.op = Op("save", IF fileHandle THEN 1 ELSE 0, 0) ]
    /\ UNCHANGED << project, interactionVars, mounted, fileHandle, timerVars,
                    saveTarget, pendingImport >>

\* Ctrl/Cmd+S in handleKeyDown.
KeySave ==
    /\ mounted
    /\ HasCurrentFrame(project)
    /\ hist.edits < MaxEdits
    /\ IF fileHandle
       THEN /\ TriggerSave(project)
            /\ status' = "Saving"
       ELSE /\ status' = "BackupDownloaded"
            /\ UNCHANGED timerVars
    /\ hist' = [ hist EXCEPT !.edits = @ + 1,
                             !.bursts = IF fileHandle /\ timers = <<>>
                                        THEN @ + 1 ELSE @,
                             !.lastNewProj = IF fileHandle THEN <<>> ELSE @,
                             !.op = Op("save", IF fileHandle THEN 1 ELSE 0, 0) ]
    /\ UNCHANGED << project, interactionVars, mounted, fileHandle, storeVars,
                    pendingImport >>

\* ------------------------------------------------- startup and loading
\* loadFromLocalStorage: data ? JSON.parse(data) : null, null on a throw.
loadFromLocalStorage(store) ==
    IF store = <<>> THEN <<>>
    ELSE IF store[1].parse = "object" THEN store ELSE <<>>

\* Variant: the restore accepts any backup that parses to an object.
RestoreAccepts_AnyObject(backup) == backup # <<>>

\* backup && backup.frames && backup.frames.length > 0 (a truthy string
\* always has a positive length).
RestoreAccepts(backup) ==
    /\ backup # <<>>
    /\ Truthy_frames(backup[1])
    /\ (ArrayIsArray_frames(backup[1]) => Len(backup[1].body.frames) > 0)

\* The restore-on-mount effect.
RestoreOnMount ==
    /\ ~mounted
    /\ mounted' = TRUE
    /\ LET backup == loadFromLocalStorage(localStorage)
       IN  IF RestoreAccepts(backup)
           THEN /\ project' = backup[1].body
                /\ status' = "Restored"
           ELSE UNCHANGED << project, status >>
    /\ UNCHANGED << interactionVars, fileHandle, timerVars, storeVars,
                    pendingImport, hist >>

\* Variant: the validation without its Array.isArray test.
ValidProjectStructure_NoArrayTest(doc) == Truthy_version(doc) /\ Truthy_frames(doc)

\* loadedProject.version && loadedProject.frames && Array.isArray(frames)
ValidProjectStructure(doc) ==
    Truthy_version(doc) /\ Truthy_frames(doc) /\ ArrayIsArray_frames(doc)

\* handleLoadProject (via = "picker") and handleProjectFileInput (via =
\* "input"): the file is read and parsed, then validated.  Reading a key of
\* null and a syntax error both throw into the catch block.
LoadProject(via, doc) ==
    /\ mounted
    /\ HasCurrentFrame(project)
    /\ hist.loads < MaxLoads
    /\ IF doc.parse # "object"
       THEN /\ status' = IF via = "input" THEN "LoadFailed" ELSE status
            /\ UNCHANGED << project, selection >>
       ELSE IF ValidProjectStructure(doc)
       THEN /\ project' = doc.body
            /\ selection' = <<>>
            /\ status' = "Loaded"
       ELSE /\ status' = "Invalid"
            /\ UNCHANGED << project, selection >>
    /\ hist' = [hist EXCEPT !.loads = @ + 1, !.lastLoad = <<doc>>]
    /\ UNCHANGED << tool, isDragging, dragStart, dragCurrent, mounted,
                    fileHandle, timerVars, storeVars, pendingImport >>

\* An image import begins (handleOpenFile, handleFileInputChange,
\* handleOpenFolder, handleFolderInputChange): the handler closes over the
\* project of its render and awaits the decode of the picked files.
ImportKinds == {"openFile", "fileInput", "openFolder", "folderInput"}

ImportStart(kind, images) ==
    /\ mounted
    /\ pendingImport = <<>>
    /\ hist.loads < MaxLoads
    /\ kind \in {"openFile", "fileInput"} => Len(images) <= 1
    /\ pendingImport' = << [kind |-> kind, project |-> project, images |-> images] >>
    /\ hist' = [hist EXCEPT !.loads = @ + 1, !.lastLoad = <<>>]
    /\ UNCHANGED << project, interactionVars, status, mounted, fileHandle,
                    timerVars, storeVars >>

\* The project an import sets: { ...project, frames, currentIndex: 0 } over
\* the project captured when the handler started.  loadFolder's naturalSort
\* compares a.toString() of image objects, equal for all of them, so the
\* stable sort keeps the host's order.
ImportedProject(captured, images) ==
    [ captured EXCEPT
        !.frames = [i \in DOMAIN images |-> NewFrame(images[i])],
        !.currentIndex = 0 ]

\* The decode settles.  No image: a single-image handler failed (the picker
\* variant falls back to the file input, the input variant reports it), a
\* folder handler reports that nothing compatible was found.
ImportComplete ==
    /\ pendingImport # <<>>
    /\ LET imp == pendingImport[1]
       IN  IF imp.images = <<>>
           THEN /\ status' = CASE imp.kind = "openFile" -> status
                               [] imp.kind = "fileInput" -> "ImageFailed"
                               [] OTHER -> "NoImages"
                /\ UNCHANGED project
           ELSE /\ project' = ImportedProject(imp.project, imp.images)
                /\ status' = IF imp.kind \in {"openFile", "fileInput"}
                             THEN "ImageLoaded" ELSE "FolderLoaded"
    /\ pendingImport' = <<>>
    /\ UNCHANGED << interactionVars, mounted, fileHandle, timerVars, storeVars,
                    hist >>

\* ---------------------------------------------------------------- edits
CanEdit == mounted /\ HasCurrentFrame(project)

updateViewport(p, zoom, panX, panY) ==
    [p EXCEPT !.viewport = [zoom |-> zoom, panX |-> panX, panY |-> panY]]

updateFrameRotation(p, frameIndex, rotationDeg) ==
    [p EXCEPT !.frames[frameIndex + 1].rotationDeg = rotationDeg]

updateFrameAnnotations(p, frameIndex, annotations) ==
    [p EXCEPT !.frames[frameIndex + 1].annotations = annotations]

updateGlobalBuoys(p, buoys) == [p EXCEPT !.globalBuoys = buoys]

EditOnly(newProj) ==
    /\ UpdateProject(newProj)
    /\ UNCHANGED << interactionVars, status, mounted, fileHandle, storeVars,
                    pendingImport >>

\* Arrow keys: step = KEY_PAN_STEP / zoom.
KeyArrow(key) ==
    /\ CanEdit
    /\ LET v == project.viewport
           step == Num((KEY_PAN_STEP * ZOOM_ONE) \div v.zoom)
       IN  EditOnly(CASE key = "ArrowUp" ->
                           updateViewport(project, v.zoom, v.panX, JsAdd(v.panY, step))
                      [] key = "ArrowDown" ->
                           updateViewport(project, v.zoom, v.panX, JsSub(v.panY, step))
                      [] key = "ArrowLeft" ->
                           updateViewport(project, v.zoom, JsAdd(v.panX, step), v.panY)
                      [] key = "ArrowRight" ->
                           updateViewport(project, v.zoom, JsSub(v.panX, step), v.panY))

\* Shift+ArrowLeft / Shift+ArrowRight: the switch on e.key does not look at
\* e.shiftKey, so the key is taken by case 'ArrowLeft' / case 'ArrowRight'
\* (the pan) and the default branch, which would call goToFrame, is never
\* reached with these keys.
KeyShiftArrow(key) ==
    /\ CanEdit
    /\ key \in {"ArrowLeft", "ArrowRight"}
    /\ LET v == project.viewport
           step == Num((KEY_PAN_STEP * ZOOM_ONE) \div v.zoom)
       IN  UpdateProjectOp(IF key = "ArrowLeft"
                           THEN updateViewport(project, v.zoom, JsAdd(v.panX, step), v.panY)
                           ELSE updateViewport(project, v.zoom, JsSub(v.panX, step), v.panY),
                           Op("shiftArrow", IF key = "ArrowLeft" THEN -1 ELSE 1, 0))
    /\ UNCHANGED << interactionVars, status, mounted, fileHandle, storeVars,
                    pendingImport >>

\* '+' and '-': zoom * 1.2 and zoom / 1.2, clamped.
KeyZoomValue(zoom, key) ==
    IF key = "+" THEN IntMin(ZOOM_MAX, (zoom * 12) \div 10)
    ELSE IntMax(ZOOM_MIN, (zoom * 10) \div 12)

KeyZoom(key) ==
    /\ CanEdit
    /\ LET v == project.viewport
       IN  EditOnly(updateViewport(project, KeyZoomValue(v.zoom, key), v.panX, v.panY))

\* '[' and ']': rotationDeg -/+ 0.1, clamped.
KeyRotateValue(rot, key) ==
    IF key = "[" THEN MathMax(Num(ROTATION_MIN), JsSub(rot, Num(ROTATION_STEP)))
    ELSE MathMin(Num(ROTATION_MAX), JsAdd(rot, Num(ROTATION_STEP)))

KeyRotate(key) ==
    /\ CanEdit
    /\ EditOnly(updateFrameRotation(project, project.currentIndex,
                    KeyRotateValue(CurrentFrame(project).rotationDeg, key)))

\* imageToScreen of the image's centre under the rotated transformer: the
\* centre is translated to (0, 0), rotated (0 * cos - 0 * sin, NaN when the
\* angle is NaN), translated back, scaled by zoom and shifted by pan.
ImageCenterToScreen(frame, zoom, panX, panY) ==
    LET rot == frame.rotationDeg
        cx == IF rot.k = "nan" THEN NaN ELSE Num(((frame.width \div 2) * zoom) \div ZOOM_ONE)
        cy == IF rot.k = "nan" THEN NaN ELSE Num(((frame.height \div 2) * zoom) \div ZOOM_ONE)
    IN  [x |-> JsAdd(cx, panX), y |-> JsAdd(cy, panY)]

\* handleWheel: factor 0.9 for deltaY > 0, else 1.1.
WheelZoom(zoom, deltaYPositive) ==
    IntMax(ZOOM_MIN,
           IntMin(ZOOM_MAX, IF deltaYPositive THEN (zoom * 9) \div 10
                            ELSE (zoom * 11) \div 10))

WheelViewport(p, deltaYPositive) ==
    LET v == p.viewport
        f == CurrentFrame(p)
        newZoom == WheelZoom(v.zoom, deltaYPositive)
        screenCenter == ImageCenterToScreen(f, v.zoom, v.panX, v.panY)
        newScreen == ImageCenterToScreen(f, newZoom, Num(0), Num(0))
    IN  [ zoom |-> newZoom,
          panX |-> JsAdd(v.panX, JsSub(screenCenter.x, newScreen.x)),
          panY |-> JsAdd(v.panY, JsSub(screenCenter.y, newScreen.y)) ]

Wheel(deltaYPositive) ==
    /\ CanEdit
    /\ LET nv == WheelViewport(project, deltaYPositive)
       IN  UpdateProjectOp(updateViewport(project, nv.zoom, nv.panX, nv.panY),
                           Op("wheel", IF deltaYPositive THEN 1 ELSE -1, 0))
    /\ UNCHANGED << interactionVars, status, mounted, fileHandle, storeVars,
                    pendingImport >>

\* The zoom slider: a range input over [log ZOOM_MIN, log ZOOM_MAX] whose
\* value the browser keeps inside its range; the handler stores exp(value).
ZoomSliderValues == {ZOOM_MIN, 5 * ZOOM_ONE, ZOOM_MAX}

ZoomSlider(z) ==
    /\ CanEdit
    /\ EditOnly(updateViewport(project, z, project.viewport.panX, project.viewport.panY))

ZoomReset ==
    /\ CanEdit
    /\ EditOnly(updateViewport(project, ZOOM_ONE, Num(0), Num(0)))

\* The rotation slider: a range input over [ROTATION_MIN, ROTATION_MAX]
\* whose value the browser keeps inside its range; stored as parsed.
RotationSliderValues == {ROTATION_MIN, 25 * ROTATION_STEP, ROTATION_MAX}

RotationSlider(r) ==
    /\ CanEdit
    /\ EditOnly(updateFrameRotation(project, project.currentIndex, Num(r)))

\* The rotation number field: max(ROTATION_MIN, min(ROTATION_MAX, parseFloat)).
RotationNumberValue(text) ==
    MathMax(Num(ROTATION_MIN), MathMin(Num(ROTATION_MAX), ParseFloat(text)))

RotationNumber(text) ==
    /\ CanEdit
    /\ EditOnly(updateFrameRotation(project, project.currentIndex,
                                    RotationNumberValue(text)))

\* Variant: the range test of goToFrame off by one at the upper end.
GoToFrameGuard_OffByOne(p, index) == index >= 0 /\ index <= Len(p.frames)

\* goToFrame(index): in range, set currentIndex and clear the selection.
GoToFrameGuard(p, index) == index >= 0 /\ index < Len(p.frames)

goToFrame(index) ==
    IF GoToFrameGuard(project, index)
    THEN /\ UpdateProjectOp([project EXCEPT !.currentIndex = index],
                            Op("goToFrame", index, 0))
         /\ selection' = <<>>
         /\ UNCHANGED << tool, isDragging, dragStart, dragCurrent, status,
                         mounted, fileHandle, storeVars, pendingImport >>
    ELSE /\ hist' = [hist EXCEPT !.op = Op("goToFrame", index, 0)]
         /\ UNCHANGED << project, interactionVars, status, mounted, fileHandle,
                         timerVars, storeVars, pendingImport >>

\* n/d and p/a keys, the Prev/Next buttons (the buttons are disabled at the
\* ends of the sequence).
KeyNextFrame == CanEdit /\ goToFrame(project.currentIndex + 1)
KeyPrevFrame == CanEdit /\ goToFrame(project.currentIndex - 1)

\* A click on entry idx of the frame list.
FrameListClick(idx) ==
    /\ CanEdit
    /\ idx \in 0 .. (Len(project.frames) - 1)
    /\ goToFrame(idx)

\* Array.prototype.sort with the name comparator: a stable sort by name.
RECURSIVE InsertByName(_, _)
InsertByName(sorted, f) ==
    IF sorted = <<>> THEN <<f>>
    ELSE IF sorted[Len(sorted)].name <= f.name THEN Append(sorted, f)
    ELSE Append(InsertByName(SubSeq(sorted, 1, Len(sorted) - 1), f),
                sorted[Len(sorted)])

RECURSIVE SortByName(_)
SortByName(fs) ==
    IF fs = <<>> THEN <<>>
    ELSE InsertByName(SortByName(SubSeq(fs, 1, Len(fs) - 1)), fs[Len(fs)])

sortFramesAlphabetically ==
    /\ CanEdit
    /\ UpdateProject([project EXCEPT !.frames = SortByName(project.frames),
                                     !.currentIndex = 0])
    /\ selection' = <<>>
    /\ status' = "Sorted"
    /\ UNCHANGED << tool, isDragging, dragStart, dragCurrent, mounted,
                    fileHandle, storeVars, pendingImport >>

\* A click on an entry of the boats list or of the global buoys list.
ListSelect(type, idx) ==
    /\ CanEdit
    /\ LET anns == IF type = "global" THEN project.globalBuoys
                   ELSE CurrentFrame(project).annotations
       IN  /\ idx \in 0 .. (Len(anns) - 1)
           /\ selection' = << [type |-> type, id |-> anns[idx + 1].id, index |-> idx] >>
    /\ UNCHANGED << project, tool, isDragging, dragStart, dragCurrent, status,
                    mounted, fileHandle, timerVars, storeVars, pendingImport,
                    hist >>

\* Variant: the filter of deleteAnnotation inverted.
FilterOutId_Inverted(anns, id) == SelectSeq(anns, LAMBDA a : a.id = id)

\* annotations.filter(a => a.id !== selection.id)
FilterOutId(anns, id) == SelectSeq(anns, LAMBDA a : a.id # id)

\* Variant: deleteAnnotation filtering every collection for the selected id.
deleteAnnotation_EveryCollection(p, sel) ==
    [ p EXCEPT !.frames = [ i \in DOMAIN p.frames |->
                              [ p.frames[i] EXCEPT !.annotations = FilterOutId(@, sel.id) ] ],
               !.globalBuoys = FilterOutId(@, sel.id) ]

\* deleteAnnotation with a selection: the project handed to updateProject.
deleteAnnotation(p, sel) ==
    IF sel.type = "frame"
    THEN updateFrameAnnotations(p, p.currentIndex,
                                FilterOutId(CurrentFrame(p).annotations, sel.id))
    ELSE updateGlobalBuoys(p, FilterOutId(p.globalBuoys, sel.id))

\* Delete / Backspace: deleteAnnotation; without a selection it returns at
\* once.
KeyDelete ==
    /\ CanEdit
    /\ IF selection = <<>>
       THEN /\ hist' = [hist EXCEPT !.op = Op("delete", 0, 0)]
            /\ UNCHANGED << project, selection, timerVars >>
       ELSE /\ UpdateProjectOp(deleteAnnotation(project, selection[1]),
                               Op("delete", 0, 0))
            /\ selection' = <<>>
    /\ UNCHANGED << tool, isDragging, dragStart, dragCurrent, status, mounted,
                    fileHandle, storeVars, pendingImport >>

\* ------------------------------------------------------------- geometry
DEFAULT_BBOX_SIZE == 80
MIN_BBOX_SIDE == 5
CLICK_DRAG_THRESHOLD == 5
POINT_TOLERANCE == 10
HANDLE_SIZE == 8

Abs(a) == IF a < 0 THEN -a ELSE a

\* < and >= on JavaScript numbers: false when an operand is NaN.
JsLt(a, b) ==
    LET x == ToNumber(a)
        y == ToNumber(b)
    IN  x.k = "num" /\ y.k = "num" /\ x.v < y.v

JsGe(a, b) ==
    LET x == ToNumber(a)
        y == ToNumber(b)
    IN  x.k = "num" /\ y.k = "num" /\ x.v >= y.v

JsAbs(a) ==
    LET x == ToNumber(a)
    IN  IF x.k = "nan" THEN NaN ELSE Num(Abs(x.v))

\* a / zoom and a * zoom, zoom in thousandths (exact for the zoom and the
\* coordinates of the behaviours explored).
JsDivZoom(a, zoom) ==
    LET x == ToNumber(a)
    IN  IF x.k = "nan" THEN NaN ELSE Num((x.v * ZOOM_ONE) \div zoom)

JsMulZoom(a, zoom) ==
    LET x == ToNumber(a)
    IN  IF x.k = "nan" THEN NaN ELSE Num((x.v * zoom) \div ZOOM_ONE)

\* The rotation step of both transforms, about the image centre (the offsets
\* x, y are relative to it): nx = x cos - y sin, ny = x sin + y cos.  It is
\* skipped when !rotated or rotationDeg === 0; a NaN angle makes both NaN; a
\* null angle (a NaN written and read back) turns by zero, where a NaN
\* offset still spreads to both.  Another angle needs cos and sin and has no
\* case here: the behaviours that use the transforms set no such angle.
RotateAboutCentre(rotationDeg, rotated, x, y) ==
    CASE ~rotated \/ rotationDeg = Num(0) -> [x |-> x, y |-> y]
      [] rotated /\ rotationDeg.k = "nan" -> [x |-> NaN, y |-> NaN]
      [] rotated /\ rotationDeg.k = "null" ->
            IF ToNumber(x).k = "nan" \/ ToNumber(y).k = "nan"
            THEN [x |-> NaN, y |-> NaN]
            ELSE [x |-> ToNumber(x), y |-> ToNumber(y)]

\* CoordinateTransformer.screenToImage: undo pan, undo zoom, move to the
\* centre, undo the rotation, move back.  In the cases RotateAboutCentre
\* has, the two moves by the centre cancel.
screenToImage(frame, viewport, rotationDeg, rotated, sx, sy) ==
    LET x0 == JsDivZoom(JsSub(Num(sx), viewport.panX), viewport.zoom)
        y0 == JsDivZoom(JsSub(Num(sy), viewport.panY), viewport.zoom)
        r == RotateAboutCentre(rotationDeg, rotated, x0, y0)
    IN  [x |-> r.x, y |-> r.y]

\* CoordinateTransformer.imageToScreen: rotate about the centre, zoom, pan.
imageToScreen(frame, viewport, rotationDeg, rotated, ix, iy) ==
    LET r == RotateAboutCentre(rotationDeg, rotated, ToNumber(ix), ToNumber(iy))
    IN  [ x |-> JsAdd(JsMulZoom(r.x, viewport.zoom), viewport.panX),
          y |-> JsAdd(JsMulZoom(r.y, viewport.zoom), viewport.panY) ]

\* Math.hypot(dx, dy) squared.
Hypot2(dx, dy) ==
    LET x == ToNumber(dx)
        y == ToNumber(dy)
    IN  IF x.k = "nan" \/ y.k = "nan" THEN NaN ELSE Num(x.v * x.v + y.v * y.v)

\* One iteration of the hit-test loops: a point within 10 of the position,
\* a box containing the position (right and bottom edges excluded).
HitsAnnotation(ann, imgX, imgY) ==
    IF ann.type = ANNOTATION_POINT
    THEN JsLt(Hypot2(JsSub(ann.x, imgX), JsSub(ann.y, imgY)),
              Num(POINT_TOLERANCE * POINT_TOLERANCE))
    ELSE IF ann.type = ANNOTATION_BBOX
    THEN /\ JsGe(imgX, ann.x) /\ JsLt(imgX, JsAdd(ann.x, ann.w))
         /\ JsGe(imgY, ann.y) /\ JsLt(imgY, JsAdd(ann.y, ann.h))
    ELSE FALSE

\* Variant: the hit-test loop run from the first annotation upwards.
HitScan_FirstToLast(anns, i, imgX, imgY) ==
    LET RECURSIVE Up(_)
        Up(j) == IF j > Len(anns) THEN -1
                 ELSE IF HitsAnnotation(anns[j], imgX, imgY) THEN j - 1
                 ELSE Up(j + 1)
    IN  Up(1)

\* for (let i = length - 1; i >= 0; i--): the index (from 0) of the first
\* annotation hit going down from position i of the list, or -1.
RECURSIVE HitScan(_, _, _, _)
HitScan(anns, i, imgX, imgY) ==
    IF i < 1 THEN -1
    ELSE IF HitsAnnotation(anns[i], imgX, imgY) THEN i - 1
    ELSE HitScan(anns, i - 1, imgX, imgY)

\* Variant: the global buoys tested before the frame's annotations.
getAnnotationAtPoint_GlobalFirst(p, sx, sy) ==
    IF ~HasCurrentFrame(p) THEN <<>>
    ELSE
    LET f == CurrentFrame(p)
        pt == screenToImage(f, p.viewport, f.rotationDeg, TRUE, sx, sy)
        i == HitScan(f.annotations, Len(f.annotations), pt.x, pt.y)
        bpt == screenToImage(f, p.viewport, Num(0), FALSE, sx, sy)
        j == HitScan(p.globalBuoys, Len(p.globalBuoys), bpt.x, bpt.y)
    IN  IF j >= 0
        THEN << [type |-> "global", id |-> p.globalBuoys[j + 1].id, index |-> j] >>
        ELSE IF i >= 0
        THEN << [type |-> "frame", id |-> f.annotations[i + 1].id, index |-> i] >>
        ELSE <<>>

\* getAnnotationAtPoint: null without a current frame; the frame's
\* annotations in the rotated space first, then the global buoys in the
\* unrotated space; <<>> is null.
getAnnotationAtPoint(p, sx, sy) ==
    IF ~HasCurrentFrame(p) THEN <<>>
    ELSE
    LET f == CurrentFrame(p)
        pt == screenToImage(f, p.viewport, f.rotationDeg, TRUE, sx, sy)
        i == HitScan(f.annotations, Len(f.annotations), pt.x, pt.y)
        bpt == screenToImage(f, p.viewport, Num(0), FALSE, sx, sy)
        j == HitScan(p.globalBuoys, Len(p.globalBuoys), bpt.x, bpt.y)
    IN  IF i >= 0
        THEN << [type |-> "frame", id |-> f.annotations[i + 1].id, index |-> i] >>
        ELSE IF j >= 0
        THEN << [type |-> "global", id |-> p.globalBuoys[j + 1].id, index |-> j] >>
        ELSE <<>>

\* The eight handles of a box in the order getHandleAtPoint tests them, with
\* screen coordinates doubled (the edge handles lie at half sums).
Handles(p1, p2) ==
    LET dbl(a) == JsAdd(a, a)
        mx == JsAdd(p1.x, p2.x)
        my == JsAdd(p1.y, p2.y)
    IN  << [name |-> "nw", x2 |-> dbl(p1.x), y2 |-> dbl(p1.y)],
           [name |-> "n",  x2 |-> mx,        y2 |-> dbl(p1.y)],
           [name |-> "ne", x2 |-> dbl(p2.x), y2 |-> dbl(p1.y)],
           [name |-> "w",  x2 |-> dbl(p1.x), y2 |-> my],
           [name |-> "e",  x2 |-> dbl(p2.x), y2 |-> my],
           [name |-> "sw", x2 |-> dbl(p1.x), y2 |-> dbl(p2.y)],
           [name |-> "s",  x2 |-> mx,        y2 |-> dbl(p2.y)],
           [name |-> "se", x2 |-> dbl(p2.x), y2 |-> dbl(p2.y)] >>

\* dist < handleSize * 1.5 with handleSize = 8 / zoom, on doubled
\* coordinates: (2 dist)^2 * zoom^2 < (3 * 8)^2, the second factor zoom
\* moved to the right-hand side (rounded up) to stay within 32 bits.
NearHandle(h, sx, sy, zoom) ==
    LET d2 == Hypot2(JsSub(h.x2, Num(2 * sx)), JsSub(h.y2, Num(2 * sy)))
        k2 == (3 * HANDLE_SIZE * ZOOM_ONE) * (3 * HANDLE_SIZE * ZOOM_ONE)
    IN  /\ d2.k = "num"
        /\ d2.v * zoom < (k2 + zoom - 1) \div zoom

\* getHandleAtPoint: the first handle near the point; "" is null.
getHandleAtPoint(p, sx, sy, ann, isGlobal) ==
    IF ann.type # ANNOTATION_BBOX THEN ""
    ELSE
      LET f == CurrentFrame(p)
          rot == IF isGlobal THEN Num(0) ELSE f.rotationDeg
          p1 == imageToScreen(f, p.viewport, rot, ~isGlobal, ann.x, ann.y)
          p2 == imageToScreen(f, p.viewport, rot, ~isGlobal,
                              JsAdd(ann.x, ann.w), JsAdd(ann.y, ann.h))
          hs == Handles(p1, p2)
          near == { k \in DOMAIN hs : NearHandle(hs[k], sx, sy, p.viewport.zoom) }
      IN  IF near = {} THEN ""
          ELSE hs[CHOOSE k \in near : \A m \in near : k <= m].name

\* ---------------------------------------------------- annotation editing
\* anns.findIndex((a) => a.id === id), from 1; 0 when there is none.
FindIndex(anns, id) ==
    LET found == { i \in DOMAIN anns : anns[i].id = id }
    IN  IF found = {} THEN 0 ELSE CHOOSE i \in found : \A j \in found : i <= j

Collection(p, isGlobal) ==
    IF isGlobal THEN p.globalBuoys
    ELSE IF HasCurrentFrame(p) THEN CurrentFrame(p).annotations ELSE <<>>

WithCollection(p, isGlobal, anns) ==
    IF isGlobal THEN updateGlobalBuoys(p, anns)
    ELSE updateFrameAnnotations(p, p.currentIndex, anns)

\* Variant: moveAnnotation without the early return for an id not found
\* (the list is handed to updateProject as it is).
moveAnnotation_NoGuard(p, id, dx, dy, isGlobal) ==
    LET anns == Collection(p, isGlobal)
        idx == FindIndex(anns, id)
    IN  IF idx = 0 THEN << WithCollection(p, isGlobal, anns) >>
        ELSE << WithCollection(p, isGlobal,
                  [anns EXCEPT ![idx].x = JsAdd(@, dx), ![idx].y = JsAdd(@, dy)]) >>

\* moveAnnotation on the project p of the handler's render: the projects it
\* hands to updateProject, none when the id is not found.
moveAnnotation(p, id, dx, dy, isGlobal) ==
    LET anns == Collection(p, isGlobal)
        idx == FindIndex(anns, id)
    IN  IF idx = 0 THEN <<>>
        ELSE << WithCollection(p, isGlobal,
                  [anns EXCEPT ![idx].x = JsAdd(@, dx), ![idx].y = JsAdd(@, dy)]) >>

\* Variant: resizeAnnotation without the clamp to MIN_BBOX_SIDE.
resizeAnnotation_NoClamp(p, id, dw, dh, isGlobal) ==
    LET anns == Collection(p, isGlobal)
        idx == FindIndex(anns, id)
    IN  IF idx = 0 \/ anns[idx].type # ANNOTATION_BBOX THEN <<>>
        ELSE << WithCollection(p, isGlobal,
                  [anns EXCEPT ![idx].w = JsAdd(@, dw), ![idx].h = JsAdd(@, dh)]) >>

\* resizeAnnotation, likewise: none when the id is not found or not a box.
resizeAnnotation(p, id, dw, dh, isGlobal) ==
    LET anns == Collection(p, isGlobal)
        idx == FindIndex(anns, id)
    IN  IF idx = 0 \/ anns[idx].type # ANNOTATION_BBOX THEN <<>>
        ELSE << WithCollection(p, isGlobal,
                  [anns EXCEPT ![idx].w = MathMax(Num(MIN_BBOX_SIDE), JsAdd(@, dw)),
                               ![idx].h = MathMax(Num(MIN_BBOX_SIDE), JsAdd(@, dh))]) >>

\* generateId: an identifier no annotation of the project carries.
generateId(p) ==
    LET ids == { p.globalBuoys[i].id : i \in DOMAIN p.globalBuoys }
               \cup UNION { { p.frames[k].annotations[i].id :
                                i \in DOMAIN p.frames[k].annotations } :
                            k \in DOMAIN p.frames }
    IN  IF ids = {} THEN 1
        ELSE 1 + (CHOOSE m \in ids : \A n \in ids : n <= m)

\* generateId takes nine base-36 digits of Math.random() and checks them
\* against nothing: the draw r is 0 for a string no annotation of the
\* project carries, or else the string r itself, carried or not.
DrawnId(p, r) == IF r = 0 THEN generateId(p) ELSE r

\* ------------------------------- CoordinateTransformer, exact arithmetic
\* The two transforms once more, over rationals n/d in lowest terms, for the
\* laws that hold of them as functions of real numbers.  An angle is given by
\* h, the tangent of its half, so that its cosine and sine are rational:
\* cos = (1 - h^2) / (1 + h^2), sin = 2h / (1 + h^2); h = 0 is the angle 0,
\* -h the opposite angle, and |h| <= tan(5 deg) the range of rotations.
RECURSIVE GCD(_, _)
GCD(a, b) == IF b = 0 THEN a ELSE GCD(b, a % b)

Q(n, d) ==
    LET g == GCD(Abs(n), Abs(d))
        sg == IF d < 0 THEN -1 ELSE 1
    IN  [n |-> sg * (n \div g), d |-> sg * (d \div g)]

QInt(i) == [n |-> i, d |-> 1]
QNeg(a) == [n |-> -a.n, d |-> a.d]
QAdd(a, b) ==
    LET g == GCD(a.d, b.d)
    IN  Q(a.n * (b.d \div g) + b.n * (a.d \div g), (a.d \div g) * b.d)
QSub(a, b) == QAdd(a, QNeg(b))
QMul(a, b) ==
    LET x == Q(a.n, b.d)
        y == Q(b.n, a.d)
    IN  Q(x.n * y.n, x.d * y.d)
QDiv(a, b) == QMul(a, Q(b.d, b.n))

MathCos(h) == QDiv(QSub(QInt(1), QMul(h, h)), QAdd(QInt(1), QMul(h, h)))
MathSin(h) == QDiv(QMul(QInt(2), h), QAdd(QInt(1), QMul(h, h)))

\* new CoordinateTransformer(imgW, imgH, zoom, panX, panY, rotationDeg, rotated)
CoordinateTransformer(imgW, imgH, zoom, panX, panY, rotationDeg, rotated) ==
    [ imgW |-> imgW, imgH |-> imgH, zoom |-> zoom, panX |-> panX, panY |-> panY,
      rotationDeg |-> rotationDeg, rotated |-> rotated ]

\* The rotation step: nx = x cos - y sin, ny = x sin + y cos, by the angle h.
Rotated(t, h, x, y) ==
    IF t.rotated /\ t.rotationDeg # QInt(0)
    THEN [ x |-> QSub(QMul(x, MathCos(h)), QMul(y, MathSin(h))),
           y |-> QAdd(QMul(x, MathSin(h)), QMul(y, MathCos(h))) ]
    ELSE [ x |-> x, y |-> y ]

\* Variant: screenToImage turning by the stored angle, not by its opposite.
TransformerScreenToImage_SameAngle(t, sx, sy) ==
    LET cx == Q(t.imgW, 2)
        cy == Q(t.imgH, 2)
        x == QSub(QDiv(QSub(sx, t.panX), t.zoom), cx)
        y == QSub(QDiv(QSub(sy, t.panY), t.zoom), cy)
        r == Rotated(t, t.rotationDeg, x, y)
    IN  [ x |-> QAdd(r.x, cx), y |-> QAdd(r.y, cy) ]

\* screenToImage: undo pan, undo zoom, move the centre to the origin, turn by
\* -rotationDeg if active, move back.
TransformerScreenToImage(t, sx, sy) ==
    LET cx == Q(t.imgW, 2)
        cy == Q(t.imgH, 2)
        x == QSub(QDiv(QSub(sx, t.panX), t.zoom), cx)
        y == QSub(QDiv(QSub(sy, t.panY), t.zoom), cy)
        r == Rotated(t, QNeg(t.rotationDeg), x, y)
    IN  [ x |-> QAdd(r.x, cx), y |-> QAdd(r.y, cy) ]

\* imageToScreen: move the centre to the origin, turn by rotationDeg if
\* active, move back, apply zoom, apply pan.
TransformerImageToScreen(t, ix, iy) ==
    LET cx == Q(t.imgW, 2)
        cy == Q(t.imgH, 2)
        r == Rotated(t, t.rotationDeg, QSub(ix, cx), QSub(iy, cy))
    IN  [ x |-> QAdd(QMul(QAdd(r.x, cx), t.zoom), t.panX),
          y |-> QAdd(QMul(QAdd(r.y, cy), t.zoom), t.panY) ]

\* A caller of the transformer: imageToScreen of an image point, ...
CallImageToScreen(t, ix, iy) ==
    /\ hist.probe = <<>>
    /\ hist' = [ hist EXCEPT !.probe =
                   << [ t |-> t, p |-> [x |-> ix, y |-> iy],
                        screen |-> << TransformerImageToScreen(t, ix, iy) >>,
                        image |-> <<>> ] >> ]
    /\ UNCHANGED << project, interactionVars, status, mounted, fileHandle,
                    timerVars, storeVars, pendingImport >>

\* ... and screenToImage of the screen point it was given.
CallScreenToImage ==
    /\ hist.probe # <<>>
    /\ hist.probe[1].image = <<>>
    /\ LET pr == hist.probe[1]
       IN  hist' = [ hist EXCEPT !.probe =
                       << [ pr EXCEPT !.image =
                              << TransformerScreenToImage(pr.t, pr.screen[1].x,
                                                          pr.screen[1].y) >> ] >> ]
    /\ UNCHANGED << project, interactionVars, status, mounted, fileHandle,
                    timerVars, storeVars, pendingImport >>

\* ------------------------------------------------------ canvas gestures
DrawTools == {TOOL_BOAT_POINT, TOOL_BOAT_BOX, TOOL_BUOY_POINT, TOOL_BUOY_BOX}
AllTools == {TOOL_SELECT, TOOL_PAN} \cup DrawTools

\* The value handed to setDragStart; a start without handle and hit (pan
\* and drawing tools, and after a move) holds "" and <<>> for them.
DragPoint(sx, sy, handle, hit) ==
    << [x |-> sx, y |-> sy, handle |-> handle, hit |-> hit] >>

\* A handler that calls updateProject once or twice in a row, each time on
\* a project computed from the project of its render: the last setProject
\* stands, and each call re-arms the timer.
RECURSIVE TimersAfterAll(_, _, _)
TimersAfterAll(ts, ref, projs) ==
    IF projs = <<>> THEN ts
    ELSE TimersAfterAll(TimersAfterTrigger(ts, ref, Head(projs)), "armed", Tail(projs))

UpdateProjectSeq(projs, op) ==
    /\ hist.edits < MaxEdits
    /\ project' = projs[Len(projs)]
    /\ timers' = TimersAfterAll(timers, saveTimeoutRef, projs)
    /\ saveTimeoutRef' = "armed"
    /\ hist' = [ hist EXCEPT !.edits = @ + 1,
                             !.bursts = IF timers = <<>> THEN @ + 1 ELSE @,
                             !.lastNewProj = << projs[Len(projs)] >>,
                             !.op = op ]

\* A handler run that hands nothing to updateProject; op records the run (a
\* pointer move that changes no project data keeps the record as it is).
NoUpdate(op) ==
    /\ hist' = [hist EXCEPT !.op = op]
    /\ UNCHANGED << project, timerVars >>

\* Variant: a select-tool pointer-down that starts a drag whether or not it
\* hit an annotation.
MouseDown_DragOnMiss(sx, sy) ==
    /\ CanEdit
    /\ IF tool = TOOL_SELECT
       THEN LET hit == getAnnotationAtPoint(project, sx, sy)
            IN  IF hit # <<>>
                THEN LET ann == Collection(project, hit[1].type = "global")[hit[1].index + 1]
                         handle == getHandleAtPoint(project, sx, sy, ann,
                                                    hit[1].type = "global")
                     IN  /\ selection' = hit
                         /\ isDragging' = TRUE
                         /\ dragStart' = DragPoint(sx, sy, handle, hit)
                ELSE /\ selection' = <<>>
                     /\ isDragging' = TRUE
                     /\ dragStart' = DragPoint(sx, sy, "", <<>>)
       ELSE /\ isDragging' = TRUE
            /\ dragStart' = DragPoint(sx, sy, "", <<>>)
            /\ UNCHANGED selection
    /\ NoUpdate(Op("mouseDown", 0, 0))
    /\ UNCHANGED << tool, dragCurrent, status, mounted, fileHandle, storeVars,
                    pendingImport >>

\* handleCanvasMouseDown at the canvas point (sx, sy).
MouseDown(sx, sy) ==
    /\ CanEdit
    /\ IF tool = TOOL_SELECT
       THEN LET hit == getAnnotationAtPoint(project, sx, sy)
            IN  IF hit # <<>>
                THEN LET ann == Collection(project, hit[1].type = "global")[hit[1].index + 1]
                         handle == getHandleAtPoint(project, sx, sy, ann,
                                                    hit[1].type = "global")
                     IN  /\ selection' = hit
                         /\ isDragging' = TRUE
                         /\ dragStart' = DragPoint(sx, sy, handle, hit)
                ELSE /\ selection' = <<>>
                     /\ UNCHANGED << isDragging, dragStart >>
       ELSE /\ isDragging' = TRUE
            /\ dragStart' = DragPoint(sx, sy, "", <<>>)
            /\ UNCHANGED selection
    /\ NoUpdate(Op("mouseDown", 0, 0))
    /\ UNCHANGED << tool, dragCurrent, status, mounted, fileHandle, storeVars,
                    pendingImport >>

\* Variant: every handle but nw resizing as se does.
SelectDragUpdates_EveryHandle(p, ds, sel, sx, sy) ==
    IF ds.handle # "" /\ ds.hit # <<>>
    THEN LET isGlobal == ds.hit[1].type = "global"
             f == CurrentFrame(p)
             pt == screenToImage(f, p.viewport,
                                 IF isGlobal THEN Num(0) ELSE f.rotationDeg,
                                 ~isGlobal, sx, sy)
             anns == IF isGlobal THEN p.globalBuoys ELSE f.annotations
             k == ds.hit[1].index + 1
         IN  IF k \notin DOMAIN anns THEN <<>>
             ELSE IF ds.handle # "nw"
             THEN resizeAnnotation(p, anns[k].id,
                                   JsSub(pt.x, JsAdd(anns[k].x, anns[k].w)),
                                   JsSub(pt.y, JsAdd(anns[k].y, anns[k].h)),
                                   isGlobal)
             ELSE LET dx == JsSub(pt.x, anns[k].x)
                      dy == JsSub(pt.y, anns[k].y)
                  IN  moveAnnotation(p, anns[k].id, dx, dy, isGlobal)
                      \o resizeAnnotation(p, anns[k].id, JsSub(Num(0), dx),
                                          JsSub(Num(0), dy), isGlobal)
    ELSE IF sel # <<>> /\ ds.handle = ""
    THEN moveAnnotation(p, sel[1].id,
                        JsDivZoom(Num(sx - ds.x), p.viewport.zoom),
                        JsDivZoom(Num(sy - ds.y), p.viewport.zoom),
                        sel[1].type = "global")
    ELSE <<>>

\* The select-tool branch of handleCanvasMouseMove: the projects handed to
\* updateProject.  A resize reads the annotation at the index recorded at
\* mouse-down; when the list no longer has that index, reading its x throws
\* and the handler ends there.
SelectDragUpdates(p, ds, sel, sx, sy) ==
    IF ds.handle # "" /\ ds.hit # <<>>
    THEN LET isGlobal == ds.hit[1].type = "global"
             f == CurrentFrame(p)
             pt == screenToImage(f, p.viewport,
                                 IF isGlobal THEN Num(0) ELSE f.rotationDeg,
                                 ~isGlobal, sx, sy)
             anns == IF isGlobal THEN p.globalBuoys ELSE f.annotations
             k == ds.hit[1].index + 1
         IN  IF ds.handle \notin {"se", "nw"} \/ k \notin DOMAIN anns THEN <<>>
             ELSE IF ds.handle = "se"
             THEN resizeAnnotation(p, anns[k].id,
                                   JsSub(pt.x, JsAdd(anns[k].x, anns[k].w)),
                                   JsSub(pt.y, JsAdd(anns[k].y, anns[k].h)),
                                   isGlobal)
             ELSE LET dx == JsSub(pt.x, anns[k].x)
                      dy == JsSub(pt.y, anns[k].y)
                  IN  moveAnnotation(p, anns[k].id, dx, dy, isGlobal)
                      \o resizeAnnotation(p, anns[k].id, JsSub(Num(0), dx),
                                          JsSub(Num(0), dy), isGlobal)
    ELSE IF sel # <<>> /\ ds.handle = ""
    THEN moveAnnotation(p, sel[1].id,
                        JsDivZoom(Num(sx - ds.x), p.viewport.zoom),
                        JsDivZoom(Num(sy - ds.y), p.viewport.zoom),
                        sel[1].type = "global")
    ELSE <<>>

\* handleCanvasMouseMove at the canvas point (sx, sy).
MouseMove(sx, sy) ==
    /\ CanEdit
    /\ LET op == Op("mouseMove", sx, sy)
           idle == hist.op
       IN  IF tool = TOOL_PAN /\ isDragging /\ dragStart # <<>>
           THEN LET v == project.viewport
                    ds == dragStart[1]
                IN  /\ UpdateProjectSeq(
                          << updateViewport(project, v.zoom,
                                            JsAdd(v.panX, Num(sx - ds.x)),
                                            JsAdd(v.panY, Num(sy - ds.y))) >>, op)
                    /\ dragStart' = DragPoint(sx, sy, "", <<>>)
                    /\ UNCHANGED dragCurrent
           ELSE IF tool = TOOL_SELECT /\ isDragging /\ dragStart # <<>>
           THEN LET ds == dragStart[1]
                    ups == SelectDragUpdates(project, ds, selection, sx, sy)
                IN  /\ IF ups = <<>> THEN NoUpdate(idle) ELSE UpdateProjectSeq(ups, op)
                    /\ dragStart' =
                         IF ~(ds.handle # "" /\ ds.hit # <<>>)
                            /\ selection # <<>> /\ ds.handle = ""
                         THEN DragPoint(sx, sy, "", <<>>)
                         ELSE dragStart
                    /\ UNCHANGED dragCurrent
           ELSE IF tool \in DrawTools /\ isDragging
           THEN /\ dragCurrent' = << [x |-> sx, y |-> sy] >>
                /\ NoUpdate(idle)
                /\ UNCHANGED dragStart
           ELSE /\ NoUpdate(idle)
                /\ UNCHANGED << dragStart, dragCurrent >>
    /\ UNCHANGED << tool, selection, isDragging, status, mounted, fileHandle,
                    storeVars, pendingImport >>

\* Variant: the box branch of handleCanvasMouseUp without its click threshold.
NewAnnotation_NoThreshold(p, t, ds, sx, sy) ==
    LET isGlobal == t \in {TOOL_BUOY_POINT, TOOL_BUOY_BOX}
        f == CurrentFrame(p)
        rot == IF isGlobal THEN Num(0) ELSE f.rotationDeg
        start == screenToImage(f, p.viewport, rot, ~isGlobal, ds.x, ds.y)
        end == screenToImage(f, p.viewport, rot, ~isGlobal, sx, sy)
        label == IF isGlobal THEN LABEL_BUOY ELSE LABEL_BOAT
    IN  IF t \in {TOOL_BOAT_POINT, TOOL_BUOY_POINT}
        THEN createAnnotation(generateId(p), ANNOTATION_POINT, label,
                              start.x, start.y, Num(0), Num(0))
        ELSE createAnnotation(generateId(p), ANNOTATION_BBOX, label,
                 MathMin(start.x, end.x), MathMin(start.y, end.y),
                 MathMax(Num(MIN_BBOX_SIDE), JsAbs(JsSub(end.x, start.x))),
                 MathMax(Num(MIN_BBOX_SIDE), JsAbs(JsSub(end.y, start.y))))

\* Variant: a point placed where the pointer is released.
NewAnnotation_AtRelease(p, t, ds, sx, sy) ==
    LET isGlobal == t \in {TOOL_BUOY_POINT, TOOL_BUOY_BOX}
        f == CurrentFrame(p)
        rot == IF isGlobal THEN Num(0) ELSE f.rotationDeg
        start == screenToImage(f, p.viewport, rot, ~isGlobal, ds.x, ds.y)
        end == screenToImage(f, p.viewport, rot, ~isGlobal, sx, sy)
        label == IF isGlobal THEN LABEL_BUOY ELSE LABEL_BOAT
        moved2 == (sx - ds.x) * (sx - ds.x) + (sy - ds.y) * (sy - ds.y)
    IN  IF t \in {TOOL_BOAT_POINT, TOOL_BUOY_POINT}
        THEN createAnnotation(generateId(p), ANNOTATION_POINT, label,
                              end.x, end.y, Num(0), Num(0))
        ELSE IF moved2 < CLICK_DRAG_THRESHOLD * CLICK_DRAG_THRESHOLD
        THEN createAnnotation(generateId(p), ANNOTATION_BBOX, label,
                              start.x, start.y,
                              Num(DEFAULT_BBOX_SIZE), Num(DEFAULT_BBOX_SIZE))
        ELSE createAnnotation(generateId(p), ANNOTATION_BBOX, label,
                 MathMin(start.x, end.x), MathMin(start.y, end.y),
                 MathMax(Num(MIN_BBOX_SIDE), JsAbs(JsSub(end.x, start.x))),
                 MathMax(Num(MIN_BBOX_SIDE), JsAbs(JsSub(end.y, start.y))))

\* The annotation handleCanvasMouseUp creates with drawing tool t for a
\* gesture begun at ds and released at (sx, sy); moveDistance is compared
\* squared.
NewAnnotation(p, t, ds, sx, sy) ==
    LET isGlobal == t \in {TOOL_BUOY_POINT, TOOL_BUOY_BOX}
        f == CurrentFrame(p)
        rot == IF isGlobal THEN Num(0) ELSE f.rotationDeg
        start == screenToImage(f, p.viewport, rot, ~isGlobal, ds.x, ds.y)
        end == screenToImage(f, p.viewport, rot, ~isGlobal, sx, sy)
        label == IF isGlobal THEN LABEL_BUOY ELSE LABEL_BOAT
        moved2 == (sx - ds.x) * (sx - ds.x) + (sy - ds.y) * (sy - ds.y)
    IN  IF t \in {TOOL_BOAT_POINT, TOOL_BUOY_POINT}
        THEN createAnnotation(generateId(p), ANNOTATION_POINT, label,
                              start.x, start.y, Num(0), Num(0))
        ELSE IF moved2 < CLICK_DRAG_THRESHOLD * CLICK_DRAG_THRESHOLD
        THEN createAnnotation(generateId(p), ANNOTATION_BBOX, label,
                              start.x, start.y,
                              Num(DEFAULT_BBOX_SIZE), Num(DEFAULT_BBOX_SIZE))
        ELSE createAnnotation(generateId(p), ANNOTATION_BBOX, label,
                 MathMin(start.x, end.x), MathMin(start.y, end.y),
                 MathMax(Num(MIN_BBOX_SIDE), JsAbs(JsSub(end.x, start.x))),
                 MathMax(Num(MIN_BBOX_SIDE), JsAbs(JsSub(end.y, start.y))))

\* handleCanvasMouseUp at the canvas point (sx, sy).  dragStart is set
\* whenever isDragging is; were it null, reading dragStart.x would throw
\* before anything is set.
MouseUpWith(sx, sy, r) ==
    /\ CanEdit
    /\ LET op == Op("mouseUp", sx, sy)
           idle == Op("mouseUp", 0, 0)
       IN  IF tool \in DrawTools /\ isDragging /\ dragStart = <<>>
           THEN /\ NoUpdate(idle)
                /\ UNCHANGED << isDragging, dragStart, dragCurrent >>
           ELSE /\ IF tool \in DrawTools /\ isDragging
                   THEN LET isGlobal == tool \in {TOOL_BUOY_POINT, TOOL_BUOY_BOX}
                            ann == [ NewAnnotation(project, tool, dragStart[1], sx, sy)
                                       EXCEPT !.id = DrawnId(project, r) ]
                        IN  UpdateProjectSeq(
                              << WithCollection(project, isGlobal,
                                   Append(Collection(project, isGlobal), ann)) >>, op)
                   ELSE NoUpdate(idle)
                /\ isDragging' = FALSE
                /\ dragStart' = <<>>
                /\ dragCurrent' = <<>>
    /\ UNCHANGED << tool, selection, status, mounted, fileHandle, storeVars,
                    pendingImport >>

\* Variant: a pointer-up that leaves the current point of the gesture set.
MouseUp_KeepsCurrent(sx, sy) ==
    /\ CanEdit
    /\ LET op == Op("mouseUp", sx, sy)
           idle == Op("mouseUp", 0, 0)
       IN  IF tool \in DrawTools /\ isDragging /\ dragStart = <<>>
           THEN /\ NoUpdate(idle)
                /\ UNCHANGED << isDragging, dragStart, dragCurrent >>
           ELSE /\ IF tool \in DrawTools /\ isDragging
                   THEN LET isGlobal == tool \in {TOOL_BUOY_POINT, TOOL_BUOY_BOX}
                            ann == NewAnnotation(project, tool, dragStart[1], sx, sy)
                        IN  UpdateProjectSeq(
                              << WithCollection(project, isGlobal,
                                   Append(Collection(project, isGlobal), ann)) >>, op)
                   ELSE NoUpdate(idle)
                /\ isDragging' = FALSE
                /\ dragStart' = <<>>
                /\ UNCHANGED dragCurrent
    /\ UNCHANGED << tool, selection, status, mounted, fileHandle, storeVars,
                    pendingImport >>

\* The pointer-up in which Math.random() delivers a string not yet in use.
MouseUp(sx, sy) == CanEdit /\ MouseUpWith(sx, sy, 0)

\* Variant: a pointer-leave that clears the hover highlight only.
MouseLeave_KeepsDrag ==
    /\ CanEdit
    /\ NoUpdate(Op("mouseLeave", IF isDragging THEN 1 ELSE 0, 0))
    /\ UNCHANGED << tool, selection, isDragging, dragStart, dragCurrent, status,
                    mounted, fileHandle, storeVars, pendingImport >>

\* handleCanvasMouseLeave (the canvas exists while a frame is shown).  The
\* record of the step tells whether a gesture was in progress (1) or not (0).
MouseLeave ==
    /\ CanEdit
    /\ isDragging' = FALSE
    /\ dragStart' = <<>>
    /\ dragCurrent' = <<>>
    /\ NoUpdate(Op("mouseLeave", IF isDragging THEN 1 ELSE 0, 0))
    /\ UNCHANGED << tool, selection, status, mounted, fileHandle, storeVars,
                    pendingImport >>

\* The tool buttons, the keys 1-4 and Escape: setTool(t).
SetTool(t) ==
    /\ CanEdit
    /\ tool' = t
    /\ UNCHANGED << project, selection, isDragging, dragStart, dragCurrent,
                    status, mounted, fileHandle, timerVars, storeVars,
                    pendingImport, hist >>

\* Space keydown: setTool(prev => prev === TOOL_PAN ? TOOL_SELECT : TOOL_PAN).
SpaceDownTool(prev) == IF prev = TOOL_PAN THEN TOOL_SELECT ELSE TOOL_PAN

\* Space keyup: setTool(prev => prev === TOOL_PAN ? TOOL_SELECT : prev).
SpaceUpTool(prev) == IF prev = TOOL_PAN THEN TOOL_SELECT ELSE prev

\* A keydown event of Space on the window: the first of a press, or one of
\* its auto-repeats while the key stays down.  hist.space keeps, while the
\* key is down, the tool that was active before the press.
KeySpaceDown ==
    /\ mounted
    /\ tool' = SpaceDownTool(tool)
    /\ hist' = [ hist EXCEPT
                   !.space = IF @ = <<>> THEN << tool >> ELSE @,
                   !.op = Op("spaceDown", IF hist.space = <<>> THEN 0 ELSE 1, 0) ]
    /\ UNCHANGED << project, selection, isDragging, dragStart, dragCurrent,
                    status, mounted, fileHandle, timerVars, storeVars,
                    pendingImport >>

\* The keyup event of Space that ends a press.
KeySpaceUp ==
    /\ mounted
    /\ hist.space # <<>>
    /\ tool' = SpaceUpTool(tool)
    /\ hist' = [ hist EXCEPT !.space = <<>>, !.op = Op("spaceUp", 0, 0) ]
    /\ UNCHANGED << project, selection, isDragging, dragStart, dragCurrent,
                    status, mounted, fileHandle, timerVars, storeVars,
                    pendingImport >>

\* ---------------------------------------------------------- specification
\* The save machinery: timer, backup store, save-target handle.
SaveActions ==
    \/ KeySave
    \/ \E ok \in BOOLEAN : ChooseSaveFile(ok)
    \/ Tick
    \/ \E i \in 1 .. 2, ok \in BOOLEAN : TimerFire(i, ok)
    \/ \E i \in 1 .. 3, ok \in BOOLEAN : WriteComplete(i, ok)

\* Operations that replace the project.
LoadActions ==
    \/ \E via \in {"picker", "input"}, doc \in ProjectFiles : LoadProject(via, doc)
    \/ \E kind \in ImportKinds, images \in DecodedImageLists : ImportStart(kind, images)
    \/ ImportComplete

\* Navigation, selection and deletion.
NavigateActions ==
    \/ KeyNextFrame
    \/ KeyPrevFrame
    \/ \E type \in {"frame", "global"}, idx \in 0 .. 1 : ListSelect(type, idx)
    \/ KeyDelete

\* Viewport and rotation controls.
ViewActions ==
    \/ \E key \in {"ArrowUp", "ArrowDown", "ArrowLeft", "ArrowRight"} : KeyArrow(key)
    \/ \E key \in {"+", "-"} : KeyZoom(key)
    \/ \E key \in {"[", "]"} : KeyRotate(key)
    \/ \E d \in BOOLEAN : Wheel(d)
    \/ \E z \in ZoomSliderValues : ZoomSlider(z)
    \/ ZoomReset
    \/ \E r \in RotationSliderValues : RotationSlider(r)
    \/ \E text \in NumberFieldTexts : RotationNumber(text)

\* Persistence: the save machinery driven by edits of each updateProject
\* caller (currentIndex, annotations, viewport, rotation).
Next ==
    \/ RestoreOnMount
    \/ SaveActions
    \/ NavigateActions
    \/ ZoomReset
    \/ \E key \in {"[", "]"} : KeyRotate(key)
    \/ sortFramesAlphabetically

Spec == Init /\ [][Next]_vars

\* Loading: startup recovery, project files, image imports, navigation.
NextLoad ==
    \/ RestoreOnMount
    \/ LoadActions
    \/ NavigateActions
    \/ \E idx \in 0 .. 1 : FrameListClick(idx)
    \/ sortFramesAlphabetically

SpecLoad == Init /\ [][NextLoad]_vars

\* Keyboard navigation: the frame keys, Shift+Arrow, and a selection to clear.
NextKeys ==
    \/ RestoreOnMount
    \/ KeyNextFrame
    \/ KeyPrevFrame
    \/ \E key \in {"ArrowLeft", "ArrowRight"} : KeyShiftArrow(key)
    \/ \E type \in {"frame", "global"}, idx \in 0 .. 1 : ListSelect(type, idx)
    \/ Tick

SpecKeys == Init /\ [][NextKeys]_vars

\* Identifiers: creations with every outcome of the random draw, followed by
\* moves, resizes and deletions of what was created.
RandomDraws == 0 .. 2

NextIds ==
    \/ RestoreOnMount
    \/ \E t \in DrawTools \cup {TOOL_SELECT} : SetTool(t)
    \/ MouseDown(20, 20)
    \/ MouseMove(22, 22)
    \/ \E r \in RandomDraws : MouseUpWith(22, 22, r)
    \/ KeyDelete

SpecIds == Init /\ [][NextIds]_vars

\* The transforms as functions: image sizes with even and odd sides, the
\* zoom range's ends and two values inside, pans, angles of about 8.8, -8.8,
\* 9.5 and -5.7 degrees and the angle 0, points in and outside the image.
ImageSizes == { << 100, 80 >>, << 61, 41 >> }
Zooms == { Q(1, 5), QInt(1), Q(3, 2), QInt(32) }
Pans == { << QInt(0), QInt(0) >>, << QInt(-7), Q(27, 2) >> }
HalfTangents == { QInt(0), Q(1, 13), Q(-1, 13), Q(1, 12), Q(-1, 20) }
ImagePoints == { << QInt(0), QInt(0) >>, << QInt(10), QInt(20) >>,
                 << QInt(100), QInt(80) >>, << QInt(-3), Q(7, 2) >> }

Transformers ==
    { CoordinateTransformer(sz[1], sz[2], z, pan[1], pan[2], h, r) :
        sz \in ImageSizes, z \in Zooms, pan \in Pans, h \in HalfTangents,
        r \in BOOLEAN }

NextTransform ==
    \/ \E t \in Transformers, p \in ImagePoints : CallImageToScreen(t, p[1], p[2])
    \/ CallScreenToImage

SpecTransform == Init /\ [][NextTransform]_vars

\* Hit testing across the two spaces: (30, 30) lies in box 2 of the frame and
\* on the global buoy, (60, 60) in boxes 2 and 3; moving or deleting box 2
\* uncovers the buoy.
HitPoints == { << 30, 30 >>, << 60, 60 >> }

NextHit ==
    \/ RestoreOnMount
    \/ \E pt \in HitPoints : MouseDown(pt[1], pt[2])
    \/ \E pt \in HitPoints : MouseMove(pt[1], pt[2])
    \/ \E pt \in HitPoints : MouseUp(pt[1], pt[2])
    \/ KeyDelete

SpecHit == InitWith({ <<>> } \cup { << doc >> : doc \in BoxProjectFiles }) /\ [][NextHit]_vars

\* Handle drags on the boxes of ProjBoxes: (60, 22) is on the n handle of
\* box 2, (22, 60) on its w handle, (95, 95) on its se handle, (30, 40) in
\* its body.
HandlePoints == { << 60, 22 >>, << 22, 60 >>, << 95, 95 >>, << 30, 40 >> }

NextHandles ==
    \/ RestoreOnMount
    \/ \E pt \in HandlePoints : MouseDown(pt[1], pt[2])
    \/ \E pt \in HandlePoints : MouseMove(pt[1], pt[2])
    \/ \E pt \in HandlePoints : MouseUp(pt[1], pt[2])
    \/ MouseLeave

SpecHandles == InitWith({ << doc >> : doc \in BoxProjectFiles }) /\ [][NextHandles]_vars

\* Tool keys pressed in the middle of a gesture on the boxes of ProjBoxes:
\* the gesture starts at (30, 40), in the body of box 2.
NextToolKeys ==
    \/ RestoreOnMount
    \/ \E t \in {TOOL_SELECT, TOOL_BOAT_POINT, TOOL_BUOY_BOX} : SetTool(t)
    \/ MouseDown(30, 40)
    \/ MouseMove(22, 60)
    \/ MouseUp(22, 60)
    \/ KeySpaceDown
    \/ KeySpaceUp

SpecToolKeys == InitWith({ << doc >> : doc \in BoxProjectFiles }) /\ [][NextToolKeys]_vars

\* Viewing: every zoom, pan and rotation control.
NextView ==
    \/ RestoreOnMount
    \/ ViewActions

SpecView == Init /\ [][NextView]_vars

\* Canvas points of the drawing gestures: a start, a point 2 px right and
\* below it, and a point at distance exactly CLICK_DRAG_THRESHOLD from the
\* second (3 px right, 4 px below), 5 px right and 6 px below the first.
DrawPoints == { <<20, 20>>, <<22, 22>>, <<25, 26>> }

\* Drawing on the canvas: the four drawing tools (and the select tool the
\* editor starts with), gestures released at every point.
NextDraw ==
    \/ RestoreOnMount
    \/ \E t \in DrawTools : SetTool(t)
    \/ \E pt \in DrawPoints : MouseDown(pt[1], pt[2])
    \/ MouseMove(22, 22)
    \/ \E pt \in DrawPoints : MouseUp(pt[1], pt[2])
    \/ MouseLeave
    \/ RotationNumber([empty |-> TRUE, value |-> 0])

SpecDraw == Init /\ [][NextDraw]_vars

\* Gestures begun, abandoned and ended with every tool.
NextGesture ==
    \/ RestoreOnMount
    \/ \E t \in AllTools : SetTool(t)
    \/ MouseDown(20, 20)
    \/ MouseMove(22, 22)
    \/ MouseUp(22, 22)
    \/ MouseLeave
    \/ KeySpaceDown
    \/ KeySpaceUp

SpecGesture == Init /\ [][NextGesture]_vars

\* An image import that settles while the select tool drags the point of
\* the loaded project (canvas point (5, 70)): the selection outlives the
\* annotation it names.
NextStale ==
    \/ RestoreOnMount
    \/ ImportStart("fileInput", <<Img2>>)
    \/ ImportComplete
    \/ MouseDown(5, 70)
    \/ \E pt \in { <<5, 70>>, <<22, 22>> } : MouseMove(pt[1], pt[2])
    \/ MouseUp(22, 22)
    \/ KeyDelete

SpecStale == InitWith({ << doc >> : doc \in BoxProjectFiles }) /\ [][NextStale]_vars

\* Canvas points of the editing gestures: the corner of box 2, a point 2 px
\* right and below it, a point inside boxes 2 and 3, and a point on the se
\* handle of box 2.
EditPoints == { <<20, 20>>, <<22, 22>>, <<60, 60>>, <<95, 95>> }

\* Selecting, moving, resizing and deleting the boxes of a loaded project.
NextEdit ==
    \/ RestoreOnMount
    \/ \E pt \in EditPoints : MouseDown(pt[1], pt[2])
    \/ \E pt \in EditPoints : MouseMove(pt[1], pt[2])
    \/ \E pt \in EditPoints : MouseUp(pt[1], pt[2])
    \/ MouseLeave
    \/ \E type \in {"frame", "global"}, idx \in 0 .. 1 : ListSelect(type, idx)
    \/ KeyDelete

SpecEdit == InitWith({ << doc >> : doc \in BoxProjectFiles }) /\ [][NextEdit]_vars

\* ------------------------------------------------------------ properties
\* C1: in every reachable state at most one save timer is armed and not yet
\* fired, whatever the sequence of save requests and timer expiries.
C1_AtMostOnePendingTimer == Len(timers) <= 1

\* Two save requests in one burst: the second replaced the armed first.
C1_Witness ==
    hist.edits = 2 /\ hist.bursts = 1 /\ hist.saves = 0 /\ Len(timers) = 1

\* C2: a burst of mutations, each made while the timer of the previous one
\* is still armed (less than SAVE_DEBOUNCE_MS after it), is saved exactly
\* once: the saves made and the save still armed number the bursts, a timer
\* never fires early, each firing asks for one backup write, and the
\* snapshot armed or last written is the project of the last mutation.
C2_DebounceCoalescing ==
    /\ hist.saves + Len(timers) = hist.bursts
    /\ hist.saves > 0 =>
         Cardinality({ j \in DOMAIN io : io[j].op = "setItem" }) = 1
    /\ hist.lastNewProj # <<>> =>
         IF timers # <<>>
         THEN timers[Len(timers)].proj = hist.lastNewProj[1]
         ELSE io # <<>> /\ io[1].proj = hist.lastNewProj[1]

\* Two mutations coalesced into one performed save of the second one.
C2_Witness ==
    /\ hist.edits = 2 /\ hist.bursts = 1 /\ hist.saves = 1 /\ timers = <<>>
    /\ hist.lastNewProj # <<>>
    /\ localStorage = << JSONStringify(hist.lastNewProj[1]) >>

\* C3 (as claimed): every step that changes the project leaves a freshly
\* armed save timer holding the resulting project, for edits and equally
\* for imports, project-file loads and the startup restore.
C3_EveryChangeSchedulesSave ==
    [][ project' # project =>
          /\ timers' # <<>>
          /\ timers'[Len(timers')] = [proj |-> project', elapsed |-> 0] ]_vars

\* C4: when the timer fires, the backup write of the scheduled snapshot is
\* asked for first (the store takes it or, on failure, keeps its content),
\* a write of the same snapshot to the handle starts if and only if a handle
\* is set, and the settling of a handle write leaves the backup untouched.
C4_TimerFireWrites ==
    [][ /\ hist'.saves > hist.saves =>
             \E i \in DOMAIN timers :
                /\ timers' = RemoveAt(timers, i)
                /\ timers[i].elapsed >= SAVE_DEBOUNCE_MS
                /\ io' # <<>>
                /\ io'[1] = [op |-> "setItem", proj |-> timers[i].proj]
                /\ localStorage' \in { localStorage,
                                       << JSONStringify(timers[i].proj) >> }
                /\ IF fileHandle
                   THEN /\ inflight' = Append(inflight, timers[i].proj)
                        /\ io' = << io'[1],
                                    [op |-> "createWritable", proj |-> timers[i].proj] >>
                   ELSE /\ inflight' = inflight
                        /\ Len(io') = 1
        /\ Len(inflight') < Len(inflight) =>
             localStorage' = localStorage /\ io' = io ]_vars

\* A firing with a handle set whose backup write failed: the handle write
\* is in flight and the store still holds its earlier content.
C4_Witness ==
    /\ hist.saves = 1 /\ fileHandle /\ Len(io) = 2 /\ inflight # <<>>
    /\ localStorage # << JSONStringify(io[1].proj) >>

\* C5: a handle write that fails is reported as failed, never as saved, and
\* changes neither project, selection, tool nor the timer (no retry); a
\* handle write that succeeds, and a firing without a handle, report saved.
C5_FailedWriteReported ==
    [][ /\ Len(inflight') < Len(inflight) =>
             /\ status' = IF hist'.lastWrite = "failed" THEN "SaveFailed" ELSE "Saved"
             /\ hist'.lastWrite = "failed" => saveTarget' = saveTarget
             /\ project' = project /\ selection' = selection /\ tool' = tool
             /\ timers' = timers /\ saveTimeoutRef' = saveTimeoutRef
        /\ (hist'.saves > hist.saves /\ ~fileHandle) => status' = "Saved" ]_vars

\* A failed handle write was reported, and an edit made after it is armed.
C5_Witness ==
    /\ hist.lastWrite = "failed" /\ hist.saves = 1 /\ inflight = <<>>
    /\ hist.edits = 2 /\ Len(timers) = 1

\* C6: a project file is accepted (it becomes the project and the selection
\* is cleared) only if it parses to an object with a non-null version and a
\* frames list; any other file leaves project and selection as they were.
C6_LoadValidation ==
    [][ (hist'.loads > hist.loads /\ hist'.lastLoad # <<>>) =>
          LET doc == hist'.lastLoad[1]
              wellFormed == /\ doc.parse = "object"
                            /\ doc.versionKind = "number"
                            /\ doc.framesKind = "array"
          IN  /\ ~wellFormed => project' = project /\ selection' = selection
              /\ (project' # project \/ selection' # selection) =>
                   /\ wellFormed
                   /\ project' = doc.body /\ selection' = <<>>
                   /\ status' = "Loaded" ]_vars

\* A file with a null version was rejected while an annotation was selected:
\* the project is not the file's and the selection is kept.
C6_Witness ==
    /\ hist.lastLoad # <<>>
    /\ hist.lastLoad[1].versionKind = "null"
    /\ status = "Invalid"
    /\ project # hist.lastLoad[1].body
    /\ selection # <<>>

C8_CurrentIndexInRange ==
    Len(project.frames) > 0 =>
        (0 <= project.currentIndex /\ project.currentIndex < Len(project.frames))

\* C9 (as claimed): the viewport zoom lies in [ZOOM_MIN, ZOOM_MAX].
C9_ZoomInRange ==
    ZOOM_MIN <= project.viewport.zoom /\ project.viewport.zoom <= ZOOM_MAX

\* C10 (as claimed): every frame's rotationDeg is a number in
\* [ROTATION_MIN, ROTATION_MAX].
C10_RotationInRange ==
    \A i \in DOMAIN project.frames :
        LET r == project.frames[i].rotationDeg
        IN  r.k = "num" /\ ROTATION_MIN <= r.v /\ r.v <= ROTATION_MAX

\* A step taken by the user operation `name`: it is the one recorded last,
\* and the step recorded it or counted an edit.
OpStep(name) ==
    /\ hist'.op # <<>>
    /\ hist'.op[1].name = name
    /\ (hist'.op # hist.op \/ hist'.edits # hist.edits)

\* C11: goToFrame(i) with i outside 0 .. frames.length - 1 changes neither
\* the project, the selection nor the pending save; with i inside, it sets
\* currentIndex to i and clears the selection, and nothing else of the
\* project changes.
C11_GoToFrame ==
    [][ OpStep("goToFrame") =>
          LET i == hist'.op[1].x
          IN  IF i < 0 \/ i >= Len(project.frames)
              THEN /\ project' = project
                   /\ selection' = selection
                   /\ timers' = timers /\ saveTimeoutRef' = saveTimeoutRef
              ELSE /\ project' = [project EXCEPT !.currentIndex = i]
                   /\ selection' = <<>> ]_vars

\* goToFrame(frames.length) was asked on the last frame with an annotation
\* selected: index and selection are as they were.
C11_Witness ==
    /\ hist.op = Op("goToFrame", Len(project.frames), 0)
    /\ Len(project.frames) = 2
    /\ project.currentIndex = 1
    /\ selection # <<>>

\* Every annotation list of a project: each frame's and the global one.
AnnotationLists(p) ==
    { p.frames[i].annotations : i \in DOMAIN p.frames } \cup { p.globalBuoys }

\* C12 (as claimed): in every reachable state every bounding box, in a
\* frame's list or the global one, has a width and a height of at least
\* MIN_BBOX_SIDE.
C12_BoxSidesAtLeastMin ==
    \A anns \in AnnotationLists(project) :
        \A k \in DOMAIN anns :
            anns[k].type = ANNOTATION_BBOX =>
                /\ anns[k].w.k = "num" /\ anns[k].w.v >= MIN_BBOX_SIDE
                /\ anns[k].h.k = "num" /\ anns[k].h.v >= MIN_BBOX_SIDE

\* The pointer moves while the select tool drags the se handle of the
\* annotation found at mouse-down, and the move reaches resizeAnnotation.
SeResizeStep ==
    /\ OpStep("mouseMove")
    /\ tool = TOOL_SELECT /\ isDragging /\ dragStart # <<>>
    /\ dragStart[1].handle = "se" /\ dragStart[1].hit # <<>>

\* C13: resizing a box by (dw, dh) gives it the width max(5, w + dw) and the
\* height max(5, h + dh), leaves its id, type, label, x and y and every
\* other annotation as they were, and reports no error, also when the
\* request would make a side smaller than 5.
C13_ResizeClamps ==
    [][ SeResizeStep =>
          LET isGlobal == dragStart[1].hit[1].type = "global"
              anns == Collection(project, isGlobal)
              k == dragStart[1].hit[1].index + 1
              f == CurrentFrame(project)
              pt == screenToImage(f, project.viewport,
                                  IF isGlobal THEN Num(0) ELSE f.rotationDeg,
                                  ~isGlobal, hist'.op[1].x, hist'.op[1].y)
              dw == pt.x.v - (anns[k].x.v + anns[k].w.v)
              dh == pt.y.v - (anns[k].y.v + anns[k].h.v)
          IN  /\ Collection(project', isGlobal) =
                   [ anns EXCEPT ![k] =
                       [ id |-> anns[k].id, type |-> anns[k].type,
                         label |-> anns[k].label, x |-> anns[k].x, y |-> anns[k].y,
                         w |-> Num(IntMax(MIN_BBOX_SIDE, anns[k].w.v + dw)),
                         h |-> Num(IntMax(MIN_BBOX_SIDE, anns[k].h.v + dh)) ] ]
              /\ status' = status ]_vars

\* Box 2 (20, 20, 80 x 80) after its se handle was dragged to (22, 22): the
\* width 2 asked for became 5.
C13_Witness ==
    /\ hist.op = Op("mouseMove", 22, 22)
    /\ dragStart # <<>> /\ dragStart[1].handle = "se"
    /\ \E k \in DOMAIN CurrentFrame(project).annotations :
          LET a == CurrentFrame(project).annotations[k]
          IN  a.id = 2 /\ a.x = Num(20) /\ a.w = Num(MIN_BBOX_SIDE)
              /\ a.h = Num(MIN_BBOX_SIDE)

\* The pointer is released while a box tool holds a gesture.
BoxUpStep ==
    /\ OpStep("mouseUp")
    /\ tool \in {TOOL_BOAT_BOX, TOOL_BUOY_BOX} /\ isDragging /\ dragStart # <<>>

\* The list a drawing tool appends to.
ToolCollection(p, t) == Collection(p, t \in {TOOL_BUOY_POINT, TOOL_BUOY_BOX})

\* The step appended one annotation to the list of the tool in use.
AppendedOne ==
    /\ Len(ToolCollection(project', tool)) = Len(ToolCollection(project, tool)) + 1
    /\ SubSeq(ToolCollection(project', tool), 1, Len(ToolCollection(project, tool)))
         = ToolCollection(project, tool)

\* The annotation the step appended.
Appended == ToolCollection(project', tool)[Len(ToolCollection(project', tool))]

\* The gesture being released spans 2 px by 2 px on the canvas.
TwoByTwoRelease ==
    /\ BoxUpStep
    /\ Abs(hist'.op[1].x - dragStart[1].x) = 2
    /\ Abs(hist'.op[1].y - dragStart[1].y) = 2

\* C14 (as claimed): a box-tool drag spanning 2 px by 2 px creates a box
\* whose width and height are both 5.
C14_TwoPixelDragClamped ==
    [][ TwoByTwoRelease =>
          /\ AppendedOne
          /\ Appended.type = ANNOTATION_BBOX
          /\ Appended.w = Num(MIN_BBOX_SIDE)
          /\ Appended.h = Num(MIN_BBOX_SIDE) ]_vars

\* C14 (amended): a box-tool drag spanning 2 px by 2 px is shorter than the
\* click threshold and creates a box of the default size, 80 by 80.
C14_TwoPixelDragGivesDefault ==
    [][ TwoByTwoRelease =>
          /\ AppendedOne
          /\ Appended.type = ANNOTATION_BBOX
          /\ Appended.w = Num(DEFAULT_BBOX_SIZE)
          /\ Appended.h = Num(DEFAULT_BBOX_SIZE) ]_vars

\* A boat box drawn from (20, 20) to (22, 22): 80 by 80 at (20, 20).
C14_Witness ==
    /\ hist.op = Op("mouseUp", 22, 22)
    /\ tool = TOOL_BOAT_BOX
    /\ LET anns == CurrentFrame(project).annotations
       IN  /\ anns # <<>>
           /\ anns[Len(anns)].type = ANNOTATION_BBOX
           /\ anns[Len(anns)].x = Num(20) /\ anns[Len(anns)].y = Num(20)
           /\ anns[Len(anns)].w = Num(DEFAULT_BBOX_SIZE)
           /\ anns[Len(anns)].h = Num(DEFAULT_BBOX_SIZE)

\* C15 (as claimed): a box-tool gesture released less than 5 px from where
\* it began creates an 80 by 80 box at the image position of its start; one
\* released 5 px or more away creates a box whose origin is the
\* component-wise minimum of the image positions of start and end and whose
\* width and height are their absolute differences, each raised to at
\* least 5.
C15_ClickVersusDrag ==
    [][ BoxUpStep =>
          LET isGlobal == tool = TOOL_BUOY_BOX
              f == CurrentFrame(project)
              rot == IF isGlobal THEN Num(0) ELSE f.rotationDeg
              ds == dragStart[1]
              ex == hist'.op[1].x
              ey == hist'.op[1].y
              start == screenToImage(f, project.viewport, rot, ~isGlobal, ds.x, ds.y)
              end == screenToImage(f, project.viewport, rot, ~isGlobal, ex, ey)
              moved2 == (ex - ds.x) * (ex - ds.x) + (ey - ds.y) * (ey - ds.y)
          IN  /\ AppendedOne
              /\ Appended.type = ANNOTATION_BBOX
              /\ IF moved2 < CLICK_DRAG_THRESHOLD * CLICK_DRAG_THRESHOLD
                 THEN /\ Appended.x = start.x /\ Appended.y = start.y
                      /\ Appended.w = Num(DEFAULT_BBOX_SIZE)
                      /\ Appended.h = Num(DEFAULT_BBOX_SIZE)
                 ELSE /\ Appended.x = MathMin(start.x, end.x)
                      /\ Appended.y = MathMin(start.y, end.y)
                      /\ Appended.w.k = "num" /\ Appended.h.k = "num"
                      /\ Appended.w.v = IntMax(MIN_BBOX_SIDE, Abs(end.x.v - start.x.v))
                      /\ Appended.h.v = IntMax(MIN_BBOX_SIDE, Abs(end.y.v - start.y.v)) ]_vars

\* C16 (as claimed): whatever the zoom, the pan and the frame's rotation,
\* after a wheel zoom the canvas position of the image's centre differs from
\* its position before by less than 1 px in each direction.
C16_ZoomKeepsCentre ==
    [][ OpStep("wheel") =>
          LET before == ImageCenterToScreen(CurrentFrame(project), project.viewport.zoom,
                                            project.viewport.panX, project.viewport.panY)
              after == ImageCenterToScreen(CurrentFrame(project'), project'.viewport.zoom,
                                           project'.viewport.panX, project'.viewport.panY)
          IN  /\ before.x.k = "num" /\ after.x.k = "num"
              /\ before.y.k = "num" /\ after.y.k = "num"
              /\ Abs(after.x.v - before.x.v) < 1
              /\ Abs(after.y.v - before.y.v) < 1 ]_vars

\* The positions in anns of the annotations the image point lies in.
HitIndexes(anns, pt) == { k \in DOMAIN anns : HitsAnnotation(anns[k], pt.x, pt.y) }

SetMax(S) == CHOOSE m \in S : \A k \in S : k <= m

\* The frame's annotations under the canvas point (sx, sy).
FrameHits(p, sx, sy) ==
    LET f == CurrentFrame(p)
    IN  HitIndexes(f.annotations,
                   screenToImage(f, p.viewport, f.rotationDeg, TRUE, sx, sy))

\* The global buoys under the canvas point (sx, sy).
GlobalHits(p, sx, sy) ==
    HitIndexes(p.globalBuoys,
               screenToImage(CurrentFrame(p), p.viewport, Num(0), FALSE, sx, sy))

\* C17: when a canvas point lies in several annotations of one collection,
\* the hit test returns the one with the greatest list index, the latest
\* inserted (the frame's annotations are tested before the global buoys).
C17_HitTestTopmost ==
    CanEdit =>
      \A pt \in EditPoints :
        LET hit == getAnnotationAtPoint(project, pt[1], pt[2])
            fh == FrameHits(project, pt[1], pt[2])
            gh == GlobalHits(project, pt[1], pt[2])
        IN  /\ fh # {} =>
                 /\ hit # <<>> /\ hit[1].type = "frame"
                 /\ hit[1].index = SetMax(fh) - 1
                 /\ hit[1].id = CurrentFrame(project).annotations[SetMax(fh)].id
            /\ (fh = {} /\ gh # {}) =>
                 /\ hit # <<>> /\ hit[1].type = "global"
                 /\ hit[1].index = SetMax(gh) - 1
                 /\ hit[1].id = project.globalBuoys[SetMax(gh)].id

\* The pointer went down at (60, 60), inside box 2 and the later box 3: the
\* hit, kept as the selection, is box 3.
C17_Witness ==
    /\ CanEdit
    /\ Cardinality(FrameHits(project, 60, 60)) = 2
    /\ isDragging /\ dragStart # <<>>
    /\ dragStart[1].x = 60 /\ dragStart[1].y = 60
    /\ dragStart[1].hit = selection
    /\ selection = << [type |-> "frame", id |-> 3, index |-> 1] >>

\* C18: deleting with a selection removes from the selection's collection
\* (the current frame's list or the global list) exactly the annotation with
\* the selected id, the others keeping their order, and clears the
\* selection; deleting without a selection changes nothing.
C18_DeleteSelected ==
    [][ OpStep("delete") =>
          IF selection = <<>>
          THEN /\ project' = project
               /\ selection' = selection
               /\ timers' = timers
          ELSE LET isGlobal == selection[1].type = "global"
                   anns == Collection(project, isGlobal)
                   at == { k \in DOMAIN anns : anns[k].id = selection[1].id }
               IN  /\ Collection(project', isGlobal) =
                        [ j \in 1 .. (Len(anns) - Cardinality(at)) |->
                            anns[CHOOSE k \in DOMAIN anns \ at :
                                   Cardinality({ m \in DOMAIN anns \ at : m < k }) = j - 1] ]
                   /\ Cardinality(at) <= 1
                   /\ selection' = <<>> ]_vars

\* Box 2, first of three in the frame's list, was selected and deleted: box
\* 3 and point 4 remain in that order.
C18_Witness ==
    /\ hist.op = Op("delete", 0, 0)
    /\ hist.edits = 1
    /\ selection = <<>>
    /\ Len(project.frames) = 1
    /\ project.frames[1].annotations = << Boat3, Boat4 >>
    /\ project.globalBuoys = << Buoy1 >>

\* C19: deleting a global buoy leaves every frame (its annotations and its
\* rotation), the viewport and currentIndex as they were; deleting an
\* annotation of the current frame leaves the global list and every other
\* frame as they were.
C19_DeleteStaysInCollection ==
    [][ (OpStep("delete") /\ selection # <<>>) =>
          IF selection[1].type = "global"
          THEN /\ project'.frames = project.frames
               /\ project'.viewport = project.viewport
               /\ project'.currentIndex = project.currentIndex
          ELSE /\ project'.globalBuoys = project.globalBuoys
               /\ Len(project'.frames) = Len(project.frames)
               /\ \A i \in DOMAIN project.frames :
                     i # project.currentIndex + 1 =>
                         project'.frames[i] = project.frames[i] ]_vars

\* The global buoy with id 1 was deleted while another frame holds a box
\* with the same id: the box is still there.
C19_Witness ==
    /\ hist.op = Op("delete", 0, 0)
    /\ hist.edits >= 1
    /\ project.globalBuoys = <<>>
    /\ Len(project.frames) = 2
    /\ project.currentIndex = 1
    /\ project.frames[1].annotations = << Boat1 >>
    /\ Boat1.id = Buoy1.id

\* No gesture is in progress.
DragIdle == ~isDragging /\ dragStart = <<>> /\ dragCurrent = <<>>

\* C20: with every tool, a pointer-leave ends the gesture in progress (not
\* dragging, no start point, no current point) and creates no annotation;
\* a pointer-up that follows it with no pointer-down in between creates no
\* annotation and changes no project data.
C20_LeaveCancelsGesture ==
    [][ /\ OpStep("mouseLeave") => (DragIdle' /\ project' = project)
        /\ (OpStep("mouseUp") /\ hist.op # <<>> /\ hist.op[1].name = "mouseLeave")
              => (DragIdle' /\ project' = project) ]_vars

\* The pointer left the canvas while the boat box tool held a gesture, and
\* nothing was drawn.
C20_Witness ==
    /\ hist.op = Op("mouseLeave", 1, 0)
    /\ tool = TOOL_BOAT_BOX
    /\ DragIdle
    /\ hist.edits = 0
    /\ project = ProjTwoFrames

\* C21 (as claimed): after every keydown of Space, the first of a press and
\* each auto-repeat, the pan tool is active, and the keyup that ends a press
\* during which the pan tool stayed active restores the tool that was
\* active before the press, whichever of the six it was; one of the six
\* tools is active at all times.
C21_TransientPan ==
    [][ /\ tool' \in AllTools
        /\ OpStep("spaceDown") => tool' = TOOL_PAN
        /\ (OpStep("spaceUp") /\ tool = TOOL_PAN) => tool' = hist.space[1] ]_vars

\* The selection names an annotation that its collection no longer holds.
StaleSelection ==
    /\ selection # <<>>
    /\ FindIndex(Collection(project, selection[1].type = "global"), selection[1].id) = 0

\* The select tool drags the selection by its body.
BodyDrag ==
    /\ CanEdit /\ tool = TOOL_SELECT /\ isDragging /\ dragStart # <<>>
    /\ dragStart[1].handle = "" /\ selection # <<>>

\* Identifiers of annotations, present or not.
SomeIds == 1 .. 6

\* C22: a move or a resize asked for an identifier its collection does not
\* hold does nothing: a pointer move that drags a stale selection leaves the
\* project, the status and the save timer as they were, and in every state
\* moveAnnotation and resizeAnnotation hand nothing to updateProject for an
\* absent identifier.
C22_StaleRequestIsNoOp ==
    [][ /\ (BodyDrag /\ StaleSelection /\ dragStart' # dragStart /\ isDragging')
             => /\ project' = project /\ status' = status
                /\ timers' = timers /\ saveTimeoutRef' = saveTimeoutRef
                /\ hist'.edits = hist.edits
        /\ \A id \in SomeIds, g \in BOOLEAN :
             FindIndex(Collection(project, g), id) = 0 =>
                 /\ moveAnnotation(project, id, Num(3), Num(-2), g) = <<>>
                 /\ resizeAnnotation(project, id, Num(3), Num(-2), g) = <<>> ]_vars

\* The pointer moved to (22, 22) while dragging point 4, which the import of
\* another image had removed: the drag start followed the pointer, the
\* project is the imported one.
C22_Witness ==
    /\ BodyDrag /\ StaleSelection
    /\ selection[1].id = 4
    /\ dragStart[1].x = 22 /\ dragStart[1].y = 22
    /\ Len(project.frames) = 1 /\ project.frames[1] = NewFrame(Img2)
    /\ hist.edits = 0

\* The pointer moves while the select tool drags the nw handle of the
\* annotation found at mouse-down, and the move reaches updateProject.
NwResizeStep ==
    /\ OpStep("mouseMove")
    /\ tool = TOOL_SELECT /\ isDragging /\ dragStart # <<>>
    /\ dragStart[1].handle = "nw" /\ dragStart[1].hit # <<>>

\* C23 (as claimed): dragging the nw handle of a box at (x, y) of size
\* (w, h) to the image point (px, py) moves its origin to (px, py) and makes
\* its size (max(5, w - dx), max(5, h - dy)) with (dx, dy) = (px - x, py - y):
\* the move and the resize of the one pointer-move event both take effect.
C23_NwDragMovesAndResizes ==
    [][ NwResizeStep =>
          LET isGlobal == dragStart[1].hit[1].type = "global"
              anns == Collection(project, isGlobal)
              k == dragStart[1].hit[1].index + 1
              f == CurrentFrame(project)
              pt == screenToImage(f, project.viewport,
                                  IF isGlobal THEN Num(0) ELSE f.rotationDeg,
                                  ~isGlobal, hist'.op[1].x, hist'.op[1].y)
              dx == pt.x.v - anns[k].x.v
              dy == pt.y.v - anns[k].y.v
          IN  Collection(project', isGlobal) =
                [ anns EXCEPT ![k] =
                    [ id |-> anns[k].id, type |-> anns[k].type, label |-> anns[k].label,
                      x |-> Num(anns[k].x.v + dx), y |-> Num(anns[k].y.v + dy),
                      w |-> Num(IntMax(MIN_BBOX_SIDE, anns[k].w.v - dx)),
                      h |-> Num(IntMax(MIN_BBOX_SIDE, anns[k].h.v - dy)) ] ] ]_vars

\* The handles of the box ann on the canvas (coordinates doubled).
HandlesOf(p, ann, isGlobal) ==
    LET f == CurrentFrame(p)
        rot == IF isGlobal THEN Num(0) ELSE f.rotationDeg
    IN  Handles(imageToScreen(f, p.viewport, rot, ~isGlobal, ann.x, ann.y),
                imageToScreen(f, p.viewport, rot, ~isGlobal,
                              JsAdd(ann.x, ann.w), JsAdd(ann.y, ann.h)))

\* Twice the distance from handle h to the canvas point, squared.
HandleDist2(h, sx, sy) == Hypot2(JsSub(h.x2, Num(2 * sx)), JsSub(h.y2, Num(2 * sy))).v

\* C24 (as claimed): for a box, the handle test returns the nearest of the
\* eight handles among those closer to the pointer than 1.5 * (8 / zoom),
\* and none when no handle is that close; for an annotation that is not a
\* box it returns none.
C24_NearestHandle ==
    CanEdit =>
      \A g \in BOOLEAN : \A k \in DOMAIN Collection(project, g) : \A pt \in EditPoints :
        LET ann == Collection(project, g)[k]
            got == getHandleAtPoint(project, pt[1], pt[2], ann, g)
        IN  IF ann.type # ANNOTATION_BBOX THEN got = ""
            ELSE LET hs == HandlesOf(project, ann, g)
                     near == { i \in DOMAIN hs :
                                 NearHandle(hs[i], pt[1], pt[2], project.viewport.zoom) }
                 IN  IF near = {} THEN got = ""
                     ELSE \E i \in near :
                            /\ hs[i].name = got
                            /\ \A j \in near : HandleDist2(hs[i], pt[1], pt[2])
                                                 <= HandleDist2(hs[j], pt[1], pt[2])

\* C25 (as claimed): Shift+ArrowRight acts as next-frame and Shift+ArrowLeft
\* as previous-frame: currentIndex moves by one when the target is in range
\* (and stays otherwise), the selection is cleared on a move, and the
\* viewport pan is never changed.
C25_ShiftArrowNavigates ==
    [][ OpStep("shiftArrow") =>
          LET index == project.currentIndex + hist'.op[1].x
          IN  /\ project'.viewport = project.viewport
              /\ IF GoToFrameGuard(project, index)
                 THEN project' = [project EXCEPT !.currentIndex = index]
                      /\ selection' = <<>>
                 ELSE project' = project /\ selection' = selection ]_vars

\* C26 (as claimed): the save combo attempts the write in response to the key
\* event itself: with a save file chosen, the step of the key press asks for
\* the write of the current project.
C26_SaveComboWritesAtOnce ==
    [][ (OpStep("save") /\ fileHandle) =>
          /\ Len(inflight') = Len(inflight) + 1
          /\ inflight'[Len(inflight')] = project ]_vars

\* C26: with a save file chosen the save combo asks for no write in the step
\* of the key press: it cancels the pending save timer, if any, and arms a
\* fresh SAVE_DEBOUNCE_MS timer holding the current project, the only live
\* timer afterwards; an edit made while that timer is armed cancels it in turn
\* and arms one holding the edited project.  Without a save file it starts
\* the backup download at once and arms nothing.  The project is unchanged.
C26_SaveComboDebounced ==
    [][ /\ OpStep("save") =>
             /\ project' = project
             /\ << inflight', localStorage', saveTarget', io' >> = storeVars
             /\ IF fileHandle
                THEN /\ status' = "Saving"
                     /\ saveTimeoutRef' = "armed"
                     /\ timers' # <<>>
                     /\ timers'[Len(timers')] = [proj |-> project, elapsed |-> 0]
                     /\ Len(timers') = IF saveTimeoutRef = "armed"
                                       THEN Len(timers) ELSE Len(timers) + 1
                ELSE /\ status' = "BackupDownloaded"
                     /\ timers' = timers /\ saveTimeoutRef' = saveTimeoutRef
        /\ ( /\ hist.op = Op("save", 1, 0) /\ saveTimeoutRef = "armed"
             /\ hist'.edits = hist.edits + 1 /\ ~OpStep("save") ) =>
             /\ Len(timers') = Len(timers)
             /\ timers'[Len(timers')] = [proj |-> project', elapsed |-> 0] ]_vars

\* The save combo was pressed with a save file chosen, and an edit made
\* before its timer fired replaced the pending save by one of the edited
\* project: nothing was written for the key press.
C26_Witness ==
    /\ fileHandle /\ hist.edits = 2 /\ hist.saves = 0
    /\ hist.lastNewProj # <<>> /\ hist.lastNewProj[1] = project
    /\ status = "Saving" /\ saveTimeoutRef = "armed"
    /\ Len(timers) = 1 /\ timers[1].proj = project /\ inflight = <<>>

\* C27 (as claimed): in every reachable state no frame's annotation list and
\* not the global list holds two annotations with the same identifier.
UniqueIds(anns) == \A i, j \in DOMAIN anns : anns[i].id = anns[j].id => i = j

C27_IdsUniquePerCollection ==
    /\ UniqueIds(project.globalBuoys)
    /\ \A k \in DOMAIN project.frames : UniqueIds(project.frames[k].annotations)

\* C28: screenToImage(imageToScreen(p)) is p, for every image size, zoom,
\* pan, angle and rotation flag (exactly, in exact arithmetic: the 1e-6 of
\* the claim is the allowance for rounding); and with rotation disabled the
\* screen point and the image point are those of the angle 0.
C28_RoundTrip ==
    (hist.probe # <<>> /\ hist.probe[1].image # <<>>) =>
        LET pr == hist.probe[1]
            t0 == [ pr.t EXCEPT !.rotationDeg = QInt(0) ]
        IN  /\ pr.image[1] = pr.p
            /\ ~pr.t.rotated =>
                 /\ pr.screen[1] = TransformerImageToScreen(t0, pr.p.x, pr.p.y)
                 /\ pr.image[1] = TransformerScreenToImage(t0, pr.screen[1].x,
                                                           pr.screen[1].y)

\* A round trip with rotation enabled at a non-zero angle, zoom 3/2 and a
\* pan, of a point away from the image centre, whose screen point differs
\* from that of the angle 0.
C28_Witness ==
    /\ hist.probe # <<>> /\ hist.probe[1].image # <<>>
    /\ LET pr == hist.probe[1]
       IN  /\ pr.t.rotated /\ pr.t.rotationDeg = Q(1, 13)
           /\ pr.t.zoom = Q(3, 2) /\ pr.t.panX = QInt(-7)
           /\ pr.p = [x |-> QInt(10), y |-> QInt(20)]
           /\ pr.screen[1] # TransformerImageToScreen(
                                 [ pr.t EXCEPT !.rotationDeg = QInt(0) ],
                                 pr.p.x, pr.p.y)

\* The pointer is released while a drawing tool holds a gesture.
DrawUpStep ==
    /\ OpStep("mouseUp")
    /\ tool \in DrawTools /\ isDragging /\ dragStart # <<>>

\* C29: a gesture released with a boat tool appends exactly one annotation
\* labelled boat to the end of the current frame's list and leaves the
\* global list and every other frame as they were; one released with a buoy
\* tool appends exactly one labelled buoy to the end of the global list and
\* leaves every frame as it was; a point tool creates a Point at the image
\* mapping of the position the pointer went down at, wherever it is released.
C29_DrawToolTargeting ==
    [][ DrawUpStep =>
          LET isGlobal == tool \in {TOOL_BUOY_POINT, TOOL_BUOY_BOX}
              cur == project.currentIndex + 1
              f == CurrentFrame(project)
              down == screenToImage(f, project.viewport,
                                    IF isGlobal THEN Num(0) ELSE f.rotationDeg,
                                    ~isGlobal, dragStart[1].x, dragStart[1].y)
          IN  /\ AppendedOne
              /\ Appended.label = (IF isGlobal THEN LABEL_BUOY ELSE LABEL_BOAT)
              /\ IF isGlobal
                 THEN project'.frames = project.frames
                 ELSE /\ project'.globalBuoys = project.globalBuoys
                      /\ Len(project'.frames) = Len(project.frames)
                      /\ \A k \in DOMAIN project.frames :
                           IF k = cur
                           THEN [ project'.frames[k] EXCEPT
                                    !.annotations = f.annotations ] = f
                           ELSE project'.frames[k] = project.frames[k]
              /\ tool \in {TOOL_BOAT_POINT, TOOL_BUOY_POINT} =>
                   /\ Appended.type = ANNOTATION_POINT
                   /\ Appended.x = down.x /\ Appended.y = down.y
              /\ tool \in {TOOL_BOAT_BOX, TOOL_BUOY_BOX} =>
                   Appended.type = ANNOTATION_BBOX ]_vars

\* The boat point tool went down at (20, 20) and was released at (25, 26):
\* the second frame, the current one, ends with a boat Point at (20, 20),
\* the first frame and the global list are as loaded.
C29_Witness ==
    /\ hist.op = Op("mouseUp", 25, 26) /\ tool = TOOL_BOAT_POINT
    /\ Len(project.frames) = 2 /\ project.currentIndex = 1
    /\ project.frames[1] = ProjTwoFrames.frames[1]
    /\ project.globalBuoys = ProjTwoFrames.globalBuoys
    /\ LET anns == project.frames[2].annotations
       IN  /\ anns # <<>>
           /\ anns[Len(anns)].type = ANNOTATION_POINT
           /\ anns[Len(anns)].label = LABEL_BOAT
           /\ anns[Len(anns)].x = Num(20) /\ anns[Len(anns)].y = Num(20)

\* C30: at every canvas point the hit test answers none when no frame is
\* loaded; otherwise a frame annotation when the point lies in one, whatever
\* global buoys it also lies on; a global buoy only when the point lies in no
\* frame annotation; and none when it lies in nothing.
C30_HitTestSpacePriority ==
    \A pt \in HitPoints :
      LET hit == getAnnotationAtPoint(project, pt[1], pt[2])
      IN  IF ~HasCurrentFrame(project) THEN hit = <<>>
          ELSE IF FrameHits(project, pt[1], pt[2]) # {}
          THEN hit # <<>> /\ hit[1].type = "frame"
          ELSE IF GlobalHits(project, pt[1], pt[2]) # {}
          THEN hit # <<>> /\ hit[1].type = "global"
          ELSE hit = <<>>

\* The pointer went down at (30, 30), which lies in a frame box and on the
\* global buoy: the hit, kept as the selection, is the frame box.
C30_Witness ==
    /\ CanEdit
    /\ FrameHits(project, 30, 30) # {} /\ GlobalHits(project, 30, 30) # {}
    /\ isDragging /\ dragStart # <<>>
    /\ dragStart[1].x = 30 /\ dragStart[1].y = 30
    /\ dragStart[1].hit = selection
    /\ selection # <<>> /\ selection[1].type = "frame"

\* C31: a pointer-down with the select tool changes no project data and,
\* at the canvas point it is made at, either hits an annotation, and then
\* the selection becomes the hit and a drag starts whose start records the
\* point, the handle probed there (or none) and the hit; or hits nothing, and
\* then the selection is cleared and the drag state is left as it was (no
\* drag starts).  After a pointer-down that hit nothing, made with no drag in
\* progress, a pointer-move changes no project data.
C31_SelectPointerDown ==
    [][ /\ (OpStep("mouseDown") /\ tool = TOOL_SELECT) =>
             /\ project' = project /\ timers' = timers
             /\ \E pt \in EditPoints :
                  LET hit == getAnnotationAtPoint(project, pt[1], pt[2])
                  IN  IF hit # <<>>
                      THEN LET g == hit[1].type = "global"
                               ann == Collection(project, g)[hit[1].index + 1]
                           IN  /\ selection' = hit
                               /\ ann.id = hit[1].id
                               /\ isDragging'
                               /\ dragStart' = DragPoint(pt[1], pt[2],
                                    getHandleAtPoint(project, pt[1], pt[2], ann, g), hit)
                      ELSE /\ selection' = <<>>
                           /\ isDragging' = isDragging
                           /\ dragStart' = dragStart
        /\ ( /\ hist.op = Op("mouseDown", 0, 0) /\ tool = TOOL_SELECT
             /\ ~isDragging /\ selection = <<>> ) =>
             ~OpStep("mouseMove") ]_vars

\* The select tool went down where no annotation lies, after an edit of the
\* frame's boxes: nothing is selected and no drag is in progress.
C31_Witness ==
    /\ CanEdit /\ tool = TOOL_SELECT
    /\ hist.op = Op("mouseDown", 0, 0)
    /\ selection = <<>> /\ ~isDragging /\ dragStart = <<>>
    /\ CurrentFrame(project).annotations # <<>>
    /\ \E pt \in EditPoints : getAnnotationAtPoint(project, pt[1], pt[2]) = <<>>

\* A select-tool drag that started on one of the six handles without effect.
InertHandles == {"n", "s", "e", "w", "ne", "sw"}

InertHandleDrag ==
    /\ CanEdit /\ tool = TOOL_SELECT /\ isDragging /\ dragStart # <<>>
    /\ dragStart[1].hit # <<>> /\ dragStart[1].handle \in InertHandles

\* C32: while a select-tool drag that started on the handle n, s, e, w, ne or
\* sw is in progress, no pointer-move hands a project to updateProject: a
\* pointer-move leaves the project and the save timer as they are.
C32_InertHandlesChangeNothing ==
    [][ InertHandleDrag =>
          /\ ~OpStep("mouseMove")
          /\ hist' = hist =>
               /\ project' = project /\ timers' = timers
               /\ saveTimeoutRef' = saveTimeoutRef ]_vars

\* The select tool went down on the w handle of box 2 and the drag is in
\* progress, with edits still to come.
C32_Witness ==
    /\ InertHandleDrag
    /\ hist.op = Op("mouseDown", 0, 0) /\ hist.edits < MaxEdits
    /\ selection = dragStart[1].hit
    /\ dragStart[1].handle = "w" /\ dragStart[1].x = 22 /\ dragStart[1].y = 60

\* C33: a pointer-move to the image point (px, py) while the se handle of
\* the selected box is dragged leaves the box's origin (x, y) and every other
\* annotation as they were and makes its size (max(5, px - x), max(5, py - y));
\* a second pointer-move at the same position leaves the project as the
\* first one made it.
C33_SeDragSetsFarCorner ==
    [][ (SeResizeStep /\ selection = dragStart[1].hit) =>
          LET isGlobal == dragStart[1].hit[1].type = "global"
              anns == Collection(project, isGlobal)
              k == dragStart[1].hit[1].index + 1
              f == CurrentFrame(project)
              pt == screenToImage(f, project.viewport,
                                  IF isGlobal THEN Num(0) ELSE f.rotationDeg,
                                  ~isGlobal, hist'.op[1].x, hist'.op[1].y)
              after == Collection(project', isGlobal)
          IN  /\ anns[k].id = selection[1].id
              /\ Len(after) = Len(anns)
              /\ \A j \in DOMAIN anns : j # k => after[j] = anns[j]
              /\ after[k].x = anns[k].x /\ after[k].y = anns[k].y
              /\ after[k].w = Num(IntMax(MIN_BBOX_SIDE, pt.x.v - anns[k].x.v))
              /\ after[k].h = Num(IntMax(MIN_BBOX_SIDE, pt.y.v - anns[k].y.v))
              /\ hist.op = hist'.op => project' = project ]_vars

\* The se handle of box 2 (20, 20, 80 x 80) was dragged to (22, 60) twice:
\* the box is 5 wide (2 was asked for) and 40 high, at its origin.
C33_Witness ==
    /\ hist.op = Op("mouseMove", 22, 60) /\ hist.edits = 2
    /\ dragStart # <<>> /\ dragStart[1].handle = "se"
    /\ LET a == CurrentFrame(project).annotations[1]
       IN  a.id = 2 /\ a.x = Num(20) /\ a.y = Num(20)
           /\ a.w = Num(MIN_BBOX_SIDE) /\ a.h = Num(40)

\* A select-tool drag that started on a handle with an effect.
ResizeDrag ==
    /\ CanEdit /\ tool = TOOL_SELECT /\ isDragging /\ dragStart # <<>>
    /\ dragStart[1].hit # <<>> /\ dragStart[1].handle \in {"se", "nw"}

\* C34 (as claimed): while a handle-resize drag is in progress the index
\* recorded at pointer-down is that of an annotation of the collection (so
\* that reading it raises no error), and a pointer-move changes no annotation
\* but the one hit at pointer-down.
C34_ResizeOnlyTheHit ==
    [][ ResizeDrag =>
          LET hit == dragStart[1].hit[1]
              isGlobal == hit.type = "global"
              anns == Collection(project, isGlobal)
          IN  /\ hit.index + 1 \in DOMAIN anns
              /\ OpStep("mouseMove") =>
                   /\ Len(Collection(project', isGlobal)) = Len(anns)
                   /\ \A j \in DOMAIN anns :
                        Collection(project', isGlobal)[j] # anns[j] =>
                            anns[j].id = hit.id ]_vars

\* C35 (as claimed): a gesture whose pointer-down was made with the select
\* tool (its start records the annotation hit, which only the select tool
\* records) creates no annotation at pointer-up, whatever tool keys were
\* pressed in between: the annotation lists have the lengths they had.
C35_OnlyDrawGesturesCreate ==
    [][ (OpStep("mouseUp") /\ dragStart # <<>> /\ dragStart[1].hit # <<>>) =>
          /\ Len(project'.globalBuoys) = Len(project.globalBuoys)
          /\ Len(CurrentFrame(project').annotations)
               = Len(CurrentFrame(project).annotations) ]_vars

\* C36 (as claimed): in every state a selection references an annotation
\* that exists in its collection, the current frame's list for a frame
\* selection and the global list for a global one.
C36_SelectionValid ==
    selection # <<>> =>
        /\ selection[1].type = "frame" => HasCurrentFrame(project)
        /\ FindIndex(Collection(project, selection[1].type = "global"),
                     selection[1].id) # 0

\* C37 (as claimed): handle writes take effect in the order their saves
\* fired: once the save target holds the snapshot of the most recently fired
\* save, no write completing later replaces it by another snapshot (so that,
\* with no timer pending and no write in flight, the target holds that
\* snapshot).
C37_WritesTakeEffectInOrder ==
    [][ ( /\ io # <<>>
          /\ saveTarget = << JSONStringify(io[1].proj) >>
          /\ Len(inflight') < Len(inflight) ) =>
            saveTarget' = saveTarget ]_vars

\* C38 (as claimed): when the decode of an import settles with images, the
\* project gets the new frames and currentIndex 0 and keeps the globalBuoys
\* and the viewport it has at that moment.
C38_ImportKeepsConcurrentEdits ==
    [][ ( /\ pendingImport # <<>> /\ pendingImport' = <<>>
          /\ pendingImport[1].images # <<>> ) =>
            /\ project'.frames = [ i \in DOMAIN pendingImport[1].images |->
                                     NewFrame(pendingImport[1].images[i]) ]
            /\ project'.currentIndex = 0
            /\ project'.globalBuoys = project.globalBuoys
            /\ project'.viewport = project.viewport ]_vars

\* The drag state is consistent: dragging implies a recorded start point,
\* not dragging implies that dragStart and dragCurrent are both null.
DragConsistent(dragging, start, current) ==
    /\ dragging => start # <<>>
    /\ ~dragging => (start = <<>> /\ current = <<>>)

\* C39: the drag state is consistent in every state, with every tool and
\* whatever tool keys are pressed during a gesture; every pointer-up and
\* every pointer-leave leaves it idle; and a pointer-up that finds a drawing
\* tool dragging finds a start point.
C39_DragStateConsistent ==
    [][ /\ DragConsistent(isDragging, dragStart, dragCurrent)
        /\ DragConsistent(isDragging', dragStart', dragCurrent')
        /\ (OpStep("mouseUp") \/ OpStep("mouseLeave")) => DragIdle'
        /\ (OpStep("mouseUp") /\ tool \in DrawTools /\ isDragging) =>
              dragStart # <<>> ]_vars

\* A gesture begun with the pan tool, continued with the boat box tool (its
\* current point was recorded) and released: a box was created and the drag
\* state is idle.
C39_Witness ==
    /\ hist.op = Op("mouseUp", 22, 22) /\ hist.edits = 2
    /\ tool = TOOL_BOAT_BOX
    /\ project.viewport.panX = Num(2)
    /\ DragIdle

====
